---- MODULE Spec2Model ----
(***************************************************************************)
(* A model of the transactional core of sekas:                             *)
(*   - the intent evaluator of a shard (replica/eval/cmd_txn.rs):          *)
(*     write_intent, commit_intent, clear_intent over a versioned store;   *)
(*   - the txn-id allocator of the root leader (root/mod.rs).              *)
(*                                                                         *)
(* Representation.  Option<T> is a sequence of length 0 (None) or 1        *)
(* (Some).  Bytes are sequences of numbers 0..255.  An i64 is held as its  *)
(* eight big-endian base-256 digits, so wrapping addition is exact.        *)
(***************************************************************************)
EXTENDS Integers, Sequences, FiniteSets, TLC

VARIABLES
    store,      \* the group engine: key -> set of (version, content) records
    txn,        \* per client: the coordinator's view of its current transaction
    nextVer,    \* the next version the root allocator hands to a client
    ev,         \* per transaction: the write_intent evaluation in flight
    latch,      \* key -> the transaction whose write_intent holds the latch (0: free)
    adds,       \* history: the AddI64 increments of key "a" that succeeded
    last,       \* the call that completed in the step into this state
    leader,     \* the node that holds the leader lease of the root group (0: none)
    schema_txn_id,  \* the max_txn_id marker persisted in the schema
    step,       \* per node: where its step_leader stands, and the core it built
    shared_core,    \* per node: RootShared::core, the published core (0: None)
    cores,      \* every RootCore built so far, in the order they were built
    alloc,      \* per caller: the alloc_txn_id call in flight
    node_status,    \* the schema: node id -> the status of its descriptor
    tasks,      \* the reconcile tasks handed to the scheduler by setup_task
    admin,      \* per admin client: the node lifecycle call in flight
    databases,  \* the schema: the database descriptors
    collections,    \* the schema: the collection descriptors
    jobs,       \* the background jobs submitted
    ddl,        \* per admin client: the delete_database / delete_collection in flight
    ident,      \* the data directory: the NodeIdent the state engine holds
    disk,       \* the data directory: what bootstrap has written besides the ident
    boot,       \* the server process on the data directory: where its start stands
    joined,     \* the root: the node ids it has assigned to join requests
    hq,         \* HeartbeatQueueCore: enable, delay, node_scheduled
    clock,      \* the clock the delay queue and its callers read
    ticks,      \* per waiter: where its wait_one_heartbeat_tick stands
    hlast,      \* the call on the heartbeat queue that completed in the last step
    hmin,       \* per node: the earliest `when` accepted since its last poll,
                \* and since its last poll or the last clear of the queue
    ongoing,    \* OngoingStats: raw_group_delta, node_view, node_delta
    ongoing_call,   \* the call on OngoingStats that completed in the last step
    group_descs,    \* the schema: the epoch of the descriptor of each group
    replica_states, \* the schema: the state (term, role) of each replica
    reports     \* per reporter: the report call in flight

shardVars == <<store, txn, nextVer, ev, latch, adds, last>>
rootVars == <<leader, schema_txn_id, step, shared_core, cores, alloc>>
adminVars == <<node_status, tasks, admin>>
catalogVars == <<databases, collections, jobs, ddl>>
bootVars == <<ident, disk, boot, joined>>
hbVars == <<hq, clock, ticks, hlast, hmin>>
statsVars == <<ongoing, ongoing_call>>
reportVars == <<group_descs, replica_states, reports>>
vars ==
    <<shardVars, rootVars, adminVars, catalogVars, bootVars, hbVars, statsVars, reportVars>>

----------------------------------------------------------------------------
(* Bounds *)

\* The number of versions the allocator hands out to the clients: when they
\* send any of the shard writes, and when they only send increments.
MaxVersion == 3
MaxAddVersion == 6

\* The number of versions handed out when the clients send increments of
\* every kind against every kind of previous value.
MaxApplyVersion == 2

\* The concurrent clients; each runs one transaction after the other.
Txns == {1, 2}
Keys == {"a", "b"}

\* The number of cores built (leadership epochs), the largest value the
\* max_txn_id marker takes, and the largest reading of the wall clock.
MaxCores == 2
MaxTxnId == 4
MaxClock == 0

\* The nodes that host a replica of the root group, the concurrent callers
\* of alloc_txn_id, and the numbers of ids they require.
Nodes == {1, 2}
Callers == {1, 2}
NumsRequired == {0, 1, 2}

\* The nodes the schema knows (node 1 hosts the root leader), the node ids
\* an admin call may name (3 is unknown), and the concurrent admin clients.
AdminNodes == {1, 2}
NodeIds == {1, 2, 3}
AdminClients == {1, 2}

----------------------------------------------------------------------------
(* Options, bytes, values *)

None == <<>>
Some(x) == <<x>>
IsSome(o) == Len(o) = 1
IsNone(o) == Len(o) = 0

\* The reserved version of a pending intent (u64::MAX in the program, the
\* largest version of the model).
TXN_INTENT_VERSION == 2147483647

\* i64::to_be_bytes of a small number and of -1.
I64(n) == <<0, 0, 0, 0, 0, 0, 0, n>>
I64Minus1 == <<255, 255, 255, 255, 255, 255, 255, 255>>
I64Max == <<127, 255, 255, 255, 255, 255, 255, 255>>
I64Min == <<128, 0, 0, 0, 0, 0, 0, 0>>

\* sekas_rock::num::decode_i64: exactly eight bytes decode, anything else
\* does not.  The decoded number is kept as its eight base-256 digits.
decode_i64(bytes) == IF Len(bytes) = 8 THEN Some(bytes) ELSE None

RECURSIVE AddDigits(_, _, _, _)
\* Ripple-carry addition of two digit vectors from position i down to 1;
\* the carry out of the first digit is dropped.
AddDigits(x, y, i, carry) ==
    IF i = 0 THEN <<>>
    ELSE LET sum == x[i] + y[i] + carry
         IN  AddDigits(x, y, i - 1, sum \div 256) \o <<sum % 256>>

\* An addition of the bytes one by one that loses the carries.
add_without_carry(x, y) == [i \in 1..8 |-> (x[i] + y[i]) % 256]

\* i64::wrapping_add followed by to_be_bytes.
wrapping_add(x, y) == AddDigits(x, y, 8, 0)

\* Value::with_value and Value::tombstone.
ValueWith(bytes, version) == [version |-> version, content |-> Some(bytes)]
Tombstone(version) == [version |-> version, content |-> None]

\* TxnIntent::tombstone and TxnIntent::with_put.
IntentTombstone(start_version) ==
    [start_version |-> start_version, is_delete |-> TRUE, value |-> None]
IntentWithPut(start_version, value) ==
    [start_version |-> start_version, is_delete |-> FALSE, value |-> value]

\* TxnIntent::encode_to_vec / TxnIntent::decode: the three fields in order,
\* the optional value behind a presence marker.
encode_to_vec(intent) ==
    <<intent.start_version, IF intent.is_delete THEN 1 ELSE 0, Len(intent.value)>>
        \o (IF IsSome(intent.value) THEN intent.value[1] ELSE <<>>)
decode(bytes) ==
    [start_version |-> bytes[1],
     is_delete |-> bytes[2] = 1,
     value |-> IF bytes[3] = 1 THEN Some(SubSeq(bytes, 4, Len(bytes))) ELSE None]

----------------------------------------------------------------------------
(* The group engine: a versioned store and write batches *)

EmptyStore == [k \in Keys |-> {}]

\* The record of the highest version in a non-empty chain.
Top(chain) == CHOOSE r \in chain : \A q \in chain : q.version <= r.version

\* GroupEngine::get: the highest version present, the intent included.
EngineGet(s, key) == IF s[key] = {} THEN None ELSE Some(Top(s[key]))

\* The entry a per-key mvcc iterator yields after `first`.
NextEntry(chain, first) ==
    LET rest == chain \ {first}
    IN  IF rest = {} THEN None ELSE Some(Top(rest))

\* GroupEngine::put / tombstone / delete stage one mutation in the batch.
EnginePut(wb, key, bytes, version) ==
    Append(wb, [op |-> "put", key |-> key, version |-> version, value |-> Some(bytes)])
EngineTombstone(wb, key, version) ==
    Append(wb, [op |-> "put", key |-> key, version |-> version, value |-> None])
EngineDelete(wb, key, version) ==
    Append(wb, [op |-> "delete", key |-> key, version |-> version, value |-> None])

\* One staged mutation applied to the store.
ApplyOp(s, m) ==
    LET kept == {r \in s[m.key] : r.version # m.version}
    IN  IF m.op = "delete"
        THEN [s EXCEPT ![m.key] = kept]
        ELSE [s EXCEPT ![m.key] = kept \cup {[version |-> m.version, content |-> m.value]}]

RECURSIVE ApplyFrom(_, _, _)
ApplyFrom(s, wb, i) ==
    IF i > Len(wb) THEN s ELSE ApplyFrom(ApplyOp(s, wb[i]), wb, i + 1)

\* GroupEngine::commit: the whole batch, in order, atomically.
EngineCommit(s, wb) == ApplyFrom(s, wb, 1)

----------------------------------------------------------------------------
(* The intent evaluator: pure parts *)

\* Error::CasFailed / Error::InvalidArgument / no error.
NoError == ""

\* read_intent_and_next_key without the second mvcc_iter.next(): nothing is
\* read below an intent.
read_intent_without_next(s, key) ==
    IF s[key] = {}
    THEN [err |-> NoError, intent |-> None, prev |-> None]
    ELSE LET entry == Top(s[key])
         IN  IF entry.version = TXN_INTENT_VERSION /\ IsSome(entry.content)
             THEN [err |-> NoError, intent |-> Some(decode(entry.content[1])),
                   prev |-> None]
             ELSE [err |-> NoError, intent |-> None, prev |-> Some(entry)]

\* The result of reading a key: the intent on top of it, if any, and the
\* value the write is evaluated against.
read_intent_and_next_key(s, key) ==
    IF s[key] = {}
    THEN [err |-> NoError, intent |-> None, prev |-> None]
    ELSE LET entry == Top(s[key])
         IN  IF entry.version = TXN_INTENT_VERSION
             THEN IF IsNone(entry.content)
                  THEN [err |-> "InvalidData", intent |-> None, prev |-> None]
                  ELSE [err |-> NoError,
                        intent |-> Some(decode(entry.content[1])),
                        prev |-> NextEntry(s[key], entry)]
             ELSE [err |-> NoError, intent |-> None, prev |-> Some(entry)]

\* read_target_intent without the comparison of start versions: the intent
\* of any transaction is taken.
read_top_intent(s, start_version, key) ==
    LET value == EngineGet(s, key)
    IN  IF IsNone(value) THEN None
        ELSE IF value[1].version # TXN_INTENT_VERSION THEN None
        ELSE IF IsNone(value[1].content) THEN None
        ELSE Some(decode(value[1].content[1]))

\* The intent commit_intent and clear_intent act on: the top record of the
\* key when it is an intent of this very transaction.  (An intent record
\* always has content: the handlers write no other.)
read_target_intent(s, start_version, key) ==
    LET value == EngineGet(s, key)
    IN  IF IsNone(value) THEN None
        ELSE IF value[1].version # TXN_INTENT_VERSION THEN None
        ELSE IF IsNone(value[1].content) THEN None
        ELSE LET intent == decode(value[1].content[1])
             IN  IF intent.start_version # start_version THEN None ELSE Some(intent)

\* Whether one condition fails against prev_value.
CondFails(prev, c) ==
    LET present == IsSome(prev) /\ IsSome(prev[1].content)
    IN  CASE c.type = "ExpectExists" -> ~present
          [] c.type = "ExpectNotExists" -> present
          [] c.type = "ExpectValue" -> ~(present /\ prev[1].content[1] = c.value)

\* cas::eval_conditions: the position of the first failing condition.
eval_conditions(prev, conds) ==
    LET failing == {i \in 1..Len(conds) : CondFails(prev, conds[i])}
    IN  IF failing = {} THEN None
        ELSE Some((CHOOSE i \in failing : \A j \in failing : i <= j) - 1)

\* A put of type Nop stored as a plain put of its (empty) value.
apply_nop_as_put(type, prev, value) == [err |-> NoError, value |-> Some(value)]

\* The bytes an intent stores for a put.
apply_put_op(type, prev, value) ==
    CASE type = "AddI64" ->
           LET delta == decode_i64(value)
               content == IF IsSome(prev) THEN prev[1].content ELSE None
               former == IF IsSome(content) THEN decode_i64(content[1]) ELSE Some(I64(0))
           IN  IF IsNone(delta) \/ IsNone(former)
               THEN [err |-> "InvalidArgument", value |-> None]
               ELSE [err |-> NoError, value |-> Some(wrapping_add(former[1], delta[1]))]
      [] type = "None" -> [err |-> NoError, value |-> Some(value)]
      [] type = "Nop" -> [err |-> NoError, value |-> None]

\* LatchGuard::resolve_txn, once the other transaction has been signalled:
\* the value it committed, or nothing when it aborted or committed no value.
resolve_txn(intent, signal) ==
    IF signal.state = "Committed"
    THEN IF intent.is_delete THEN Some(Tombstone(signal.commit_version))
         ELSE IF IsSome(intent.value)
              THEN Some(ValueWith(intent.value[1], signal.commit_version))
              ELSE None
    ELSE None

\* The value resolve_txn returned is dropped: prev_value stays the one read
\* below the intent.
merge_ignores_resolved(prev_value, resolved) == prev_value

\* prev_value after resolve_txn returned: the resolved value replaces the
\* one read below the intent only when there is one.
merge_resolved(prev_value, resolved) ==
    IF IsSome(resolved) THEN resolved ELSE prev_value

----------------------------------------------------------------------------
(* The intent evaluator: write_intent, commit_intent, clear_intent *)

NumWrites(req) == Len(req.deletes) + Len(req.puts)
IsDeleteAt(req, i) == i <= Len(req.deletes)
WriteAt(req, i) ==
    IF i <= Len(req.deletes) THEN req.deletes[i] ELSE req.puts[i - Len(req.deletes)]

\* The keys a request names.
KeysOf(req) ==
    {req.deletes[i].key : i \in 1..Len(req.deletes)}
        \cup {req.puts[i].key : i \in 1..Len(req.puts)}
        \cup {req.keys[i] : i \in 1..Len(req.keys)}

\* What write_intent has built so far: the batch, the two response lists
\* and the record of every resolve_txn it went through.
EmptyAcc == [wb |-> <<>>, deletes |-> <<>>, puts |-> <<>>, resolves |-> <<>>]

\* The index of a put reported without the offset of the deletes.
cas_idx_put_local(num_deletes, idx) == idx

\* The index CasFailed reports for a delete and for a put.
cas_idx_delete(idx) == idx
cas_idx_put(num_deletes, idx) == num_deletes + idx

\* Only the first condition of a write is evaluated.
eval_first_condition(skip_write, prev_value, conditions) ==
    IF skip_write \/ Len(conditions) = 0 THEN None
    ELSE eval_conditions(prev_value, <<conditions[1]>>)

\* `if !skip_write { if let Some(cond_idx) = eval_conditions(..)? {..} }`:
\* the conditions of a write are evaluated unless it is an idempotent replay.
eval_unless_skipped(skip_write, prev_value, conditions) ==
    IF skip_write THEN None ELSE eval_conditions(prev_value, conditions)

\* The intent a write stages, once its conditions passed.
stage_delete(wb, start_version, del) ==
    EnginePut(wb, del.key, encode_to_vec(IntentTombstone(start_version)), TXN_INTENT_VERSION)
stage_put(wb, start_version, put, apply_value) ==
    EnginePut(wb, put.key, encode_to_vec(IntentWithPut(start_version, apply_value)),
              TXN_INTENT_VERSION)

\* The intent is staged whether or not the write is a replay.
stage_always(skip_write, wb, staged) == staged

\* `if !skip_write { ... put(&mut wb, ...) }`: an idempotent replay of a
\* write stages nothing.
stage_unless_skipped(skip_write, wb, staged) == IF skip_write THEN wb ELSE staged

\* The response entry of one write.
write_response(w, prev_value) ==
    [prev_value |-> IF w.take_prev_value THEN prev_value ELSE None]

\* The body of one iteration of the loop over deletes, after the key was
\* read (and the other transaction resolved): conditions, staging, response.
write_delete(req, idx, del, prev_value, skip_write, acc) ==
    LET cond_idx == eval_unless_skipped(skip_write, prev_value, del.conditions)
    IN  IF IsSome(cond_idx)
        THEN [err |-> "CasFailed", idx |-> cas_idx_delete(idx), cond_idx |-> cond_idx[1],
              prev |-> prev_value, acc |-> acc]
        ELSE [err |-> NoError, idx |-> 0, cond_idx |-> 0, prev |-> None,
              acc |-> [acc EXCEPT
                  !.wb = stage_unless_skipped(skip_write, @,
                             stage_delete(@, req.start_version, del)),
                  !.deletes = Append(@, write_response(del, prev_value))]]

\* The body of one iteration of the loop over puts.
write_put(req, idx, put, prev_value, skip_write, acc) ==
    LET cond_idx == eval_unless_skipped(skip_write, prev_value, put.conditions)
        applied == apply_put_op(put.put_type, prev_value, put.value)
    IN  IF IsSome(cond_idx)
        THEN [err |-> "CasFailed", idx |-> cas_idx_put(Len(req.deletes), idx),
              cond_idx |-> cond_idx[1], prev |-> prev_value, acc |-> acc]
        ELSE IF ~skip_write /\ applied.err # NoError
        THEN [err |-> applied.err, idx |-> 0, cond_idx |-> 0, prev |-> None, acc |-> acc]
        ELSE [err |-> NoError, idx |-> 0, cond_idx |-> 0, prev |-> None,
              acc |-> [acc EXCEPT
                  !.wb = stage_unless_skipped(skip_write, @,
                             stage_put(@, req.start_version, put, applied.value)),
                  !.puts = Append(@, write_response(put, prev_value))]]

write_one(req, i, prev_value, skip_write, acc) ==
    IF IsDeleteAt(req, i)
    THEN write_delete(req, i - 1, req.deletes[i], prev_value, skip_write, acc)
    ELSE write_put(req, i - Len(req.deletes) - 1, req.puts[i - Len(req.deletes)],
                   prev_value, skip_write, acc)

\* The outcomes of running write_intent up to its next suspension point.
Outcome(kind, i, acc, intent, prev, err, idx, cond_idx) ==
    [kind |-> kind, i |-> i, acc |-> acc, intent |-> intent, prev |-> prev,
     err |-> err, idx |-> idx, cond_idx |-> cond_idx]

RECURSIVE write_intent(_, _, _, _, _)
\* write_intent from its i-th write (deletes first, then puts) on, against the
\* store s.  resumed is None when write i has yet to read its key, and
\* Some(prev_value) when write i has just returned from resolve_txn.  The
\* run ends when every write is done, when a write fails, or when a write
\* finds the intent of another transaction and has to wait in resolve_txn.
write_intent(s, req, i, acc, resumed) ==
    IF i > NumWrites(req)
    THEN Outcome("done", i, acc, None, None, NoError, 0, 0)
    ELSE LET w == WriteAt(req, i)
             r == read_intent_and_next_key(s, w.key)
             fresh == IsNone(resumed)
             other == fresh /\ IsSome(r.intent)
                        /\ r.intent[1].start_version # req.start_version
             skip_write == fresh /\ IsSome(r.intent)
                        /\ r.intent[1].start_version = req.start_version
             prev_value == IF fresh THEN r.prev ELSE resumed[1]
             o == write_one(req, i, prev_value, skip_write, acc)
         IN  IF fresh /\ r.err # NoError
             THEN Outcome("err", i, acc, None, None, r.err, 0, 0)
             ELSE IF other
             THEN Outcome("blocked", i, acc, r.intent, r.prev, NoError, 0, 0)
             ELSE IF o.err # NoError
             THEN Outcome("err", i, acc, None, o.prev, o.err, o.idx, o.cond_idx)
             ELSE write_intent(s, req, i + 1, o.acc, None)

\* commit_intent that writes the record at the start version of the
\* transaction.
commit_key_at_start(wb, s, req, key) ==
    LET intent == read_target_intent(s, req.start_version, key)
        deleted == EngineDelete(wb, key, TXN_INTENT_VERSION)
    IN  IF IsNone(intent) THEN wb
        ELSE IF intent[1].is_delete THEN EngineTombstone(deleted, key, req.start_version)
        ELSE IF IsSome(intent[1].value)
             THEN EnginePut(deleted, key, intent[1].value[1], req.start_version)
             ELSE deleted

\* commit_intent that stages nothing, and still signals the waiters.
commit_key_unstaged(wb, s, req, key) == wb

\* What commit_intent stages for one key.
commit_key(wb, s, req, key) ==
    LET intent == read_target_intent(s, req.start_version, key)
        deleted == EngineDelete(wb, key, TXN_INTENT_VERSION)
    IN  IF IsNone(intent) THEN wb
        ELSE IF intent[1].is_delete THEN EngineTombstone(deleted, key, req.commit_version)
        ELSE IF IsSome(intent[1].value)
             THEN EnginePut(deleted, key, intent[1].value[1], req.commit_version)
             ELSE deleted

RECURSIVE commit_intent(_, _, _, _)
\* commit_intent: the batch of the keys from position i on.
commit_intent(s, req, i, wb) ==
    IF i > Len(req.keys) THEN wb
    ELSE commit_intent(s, req, i + 1, commit_key(wb, s, req, req.keys[i]))

\* clear_intent that stages the delete without reading the intent.
clear_key_unread(wb, s, req, key) == EngineDelete(wb, key, TXN_INTENT_VERSION)

\* clear_intent that leaves a tombstone where the intent was.
clear_key_with_tombstone(wb, s, req, key) ==
    IF IsNone(read_target_intent(s, req.start_version, key)) THEN wb
    ELSE EngineTombstone(EngineDelete(wb, key, TXN_INTENT_VERSION), key,
                         req.start_version)

\* What clear_intent stages for one key.
clear_key(wb, s, req, key) ==
    IF IsNone(read_target_intent(s, req.start_version, key)) THEN wb
    ELSE EngineDelete(wb, key, TXN_INTENT_VERSION)

RECURSIVE clear_intent(_, _, _, _)
clear_intent(s, req, i, wb) ==
    IF i > Len(req.keys) THEN wb
    ELSE clear_intent(s, req, i + 1, clear_key(wb, s, req, req.keys[i]))

----------------------------------------------------------------------------
(* Requests *)

V1 == I64(1)
V2 == <<7>>

ExpectExists == [type |-> "ExpectExists", value |-> <<>>]
ExpectNotExists == [type |-> "ExpectNotExists", value |-> <<>>]
ExpectValue(bytes) == [type |-> "ExpectValue", value |-> bytes]

Del(key, conditions, take) ==
    [key |-> key, conditions |-> conditions, take_prev_value |-> take]
Put(type, key, value, conditions, take) ==
    [put_type |-> type, key |-> key, value |-> value, conditions |-> conditions,
     take_prev_value |-> take]

\* A request of any of the three kinds; the fields a kind does not have
\* are empty.
Request(start_version, commit_version, deletes, puts, keys) ==
    [start_version |-> start_version, commit_version |-> commit_version,
     deletes |-> deletes, puts |-> puts, keys |-> keys]
Body(deletes, puts) == [deletes |-> deletes, puts |-> puts]

\* WriteBuilder::ensure_add(1) on key "a".
AddOne == Body(<<>>, <<Put("AddI64", "a", V1, <<>>, FALSE)>>)

\* The shard writes the clients send.
WriteBodies ==
    { Body(<<>>, <<Put("None", "a", V1, <<>>, TRUE)>>),
      AddOne,
      Body(<<>>, <<Put("Nop", "a", <<>>, <<>>, TRUE)>>),
      Body(<<>>, <<Put("None", "a", V2, <<ExpectExists, ExpectValue(V1)>>, TRUE)>>),
      Body(<<>>, <<Put("None", "a", V2, <<ExpectNotExists>>, FALSE)>>),
      Body(<<Del("b", <<>>, FALSE)>>, <<Put("None", "a", V2, <<ExpectValue(V2)>>, TRUE)>>),
      Body(<<Del("a", <<ExpectExists>>, TRUE)>>, <<>>),
      Body(<<>>, <<Put("None", "b", V1, <<>>, FALSE),
                   Put("None", "a", V1, <<ExpectNotExists>>, TRUE)>>),
      Body(<<>>, <<Put("AddI64", "a", V2, <<>>, FALSE)>>),
      Body(<<>>, <<>>) }

\* The i64 values of tests::apply_put_op_add_i64 (0, 1, 255, -1, i64::MAX,
\* i64::MIN) and the invalid encodings of tests::apply_put_op_add_invalid.
Numbers == {I64(0), I64(1), I64(255), I64Minus1, I64Max, I64Min}
NotNumbers == {<<1>>, <<0, 0, 0, 0, 0, 0, 0, 0, 1>>}

\* What key "a" holds before the increments: nothing, a tombstone, a number
\* or bytes that are no number.
ApplyChains ==
    {{}, {Tombstone(0)}} \cup {{ValueWith(b, 0)} : b \in Numbers \cup {<<1>>}}

\* The increments the clients send: every delta, valid or not.
ApplyBodies ==
    {Body(<<>>, <<Put("AddI64", "a", delta, <<>>, FALSE)>>) :
        delta \in Numbers \cup NotNumbers}

\* The key lists of commit_intent and clear_intent requests.
KeyLists == {<<"a">>, <<"a", "b">>}

\* What a key holds before the first transaction of the model.
InitialChains == {{}, {ValueWith(I64(3), 0)}}

----------------------------------------------------------------------------
(* State *)

NoRequest == Request(0, 0, <<>>, <<>>, <<>>)

IdleEval ==
    [pc |-> "idle", req |-> NoRequest, i |-> 0, acc |-> EmptyAcc,
     intent |-> None, prev |-> None, signal |-> None, replay |-> FALSE]

\* The record of a completed call: the request and what it returned.
Call(op, t, req, result, eval, idx, cond_idx, prev, acc, replay) ==
    [op |-> op, t |-> t, req |-> req, result |-> result, eval |-> eval,
     idx |-> idx, cond_idx |-> cond_idx, prev |-> prev,
     deletes |-> acc.deletes, puts |-> acc.puts, resolves |-> acc.resolves,
     replay |-> replay]

\* The history of increments once key "a" has been written otherwise.
NoAdds == [n |-> 0, only |-> FALSE, contended |-> FALSE]

NoCall == Call("", 0, NoRequest, NoError, FALSE, 0, 0, None, EmptyAcc, FALSE)

\* A node whose run_schedule waits in on_leader.
Follower == [pc |-> "follower", root_core |-> 0]

\* An admin client with no call in flight: op, node_id and result describe
\* the call it made last.
IdleAdmin == [pc |-> "idle", op |-> "", node_id |-> 0, status |-> "", result |-> ""]

\* A caller with no alloc_txn_id in flight.
IdleAlloc == [pc |-> "idle", root_core |-> 0, num_required |-> 0, next_txn_id |-> 0,
              overlapped |-> FALSE]

\* The shard before the first transaction of the model, key "a" holding one
\* of the chains given.
InitShard(chains) ==
    /\ \E c \in chains : store = [EmptyStore EXCEPT !["a"] = c]
    /\ txn = [t \in Txns |-> [state |-> "idle", start |-> 0, commit |-> 0,
                              written |-> {}, finished |-> {}, done |-> {}]]
    /\ nextVer = 1
    /\ ev = [t \in Txns |-> IdleEval]
    /\ latch = [k \in Keys |-> 0]
    /\ adds = [n |-> 0, only |-> TRUE, contended |-> FALSE]
    /\ last = NoCall

\* The root group before any node leads.
InitRootGroup ==
    /\ leader = 0
    /\ schema_txn_id = 0
    /\ step = [nd \in Nodes |-> Follower]
    /\ shared_core = [nd \in Nodes |-> 0]
    /\ cores = <<>>
    /\ alloc = [c \in Callers |-> IdleAlloc]

\* The nodes that joined are Active; no task is set up, no admin call runs.
InitNodes ==
    /\ node_status = [n \in AdminNodes |-> "Active"]
    /\ tasks = {}
    /\ admin = [a \in AdminClients |-> IdleAdmin]

\* sekas_schema::system::db::ID and sekas_schema::FIRST_USER_COLLECTION_ID:
\* the collections of the system database have the ids below the latter.
SYSTEM_DB_ID == 1
FIRST_USER_COLLECTION_ID == 2

USER_DB_ID == SYSTEM_DB_ID + 1

DatabaseDesc(id, name) == [id |-> id, name |-> name]
CollectionDesc(id, name, db) == [id |-> id, name |-> name, db |-> db]

\* None of Option<DatabaseDesc> and of Option<CollectionDesc>.
NoDatabase == DatabaseDesc(0, "")
NoCollection == CollectionDesc(0 - 1, "", 0)

NoDdl ==
    [pc |-> "idle", op |-> "", name |-> "", database |-> "", db |-> NoDatabase,
     collection |-> NoCollection, result |-> ""]

\* The schema after bootstrap and some create calls: the system database
\* with its collections, one user database with one collection (the first
\* user collection id), and a collection a user created in the system
\* database.  No job is pending, no delete call runs.
InitCatalog ==
    /\ databases = {DatabaseDesc(SYSTEM_DB_ID, "sys"), DatabaseDesc(USER_DB_ID, "db")}
    /\ collections = {CollectionDesc(0, "database", SYSTEM_DB_ID),
                      CollectionDesc(FIRST_USER_COLLECTION_ID - 1, "txn", SYSTEM_DB_ID),
                      CollectionDesc(FIRST_USER_COLLECTION_ID, "co", USER_DB_ID),
                      CollectionDesc(FIRST_USER_COLLECTION_ID + 1, "co", SYSTEM_DB_ID)}
    /\ jobs = {}
    /\ ddl = [a \in AdminClients |-> NoDdl]

NoIdent == [cluster_id |-> "none", node_id |-> 0]
EmptyDisk == [root_group |-> FALSE, init_group |-> FALSE, root_desc |-> FALSE]
NoJoin == [cluster_id |-> "none", node_id |-> 0]
Stopped ==
    [pc |-> "stopped", init |-> FALSE, join_list |-> {}, backoff |-> 1,
     res |-> NoJoin, saved |-> "", result |-> "", returned |-> NoIdent]

\* A fresh data directory: no ident, nothing written, the server not started;
\* the root has assigned no node id.
InitBoot ==
    /\ ident = NoIdent
    /\ disk = EmptyDisk
    /\ boot = Stopped
    /\ joined = {}

\* A HashMap with no entry.
EmptyMap == [k \in {} |-> 0]

\* The tasks that wait_one_heartbeat_tick may be called from.
Waiters == {1, 2}

NoHeartbeatCall ==
    [op |-> "none", tasks |-> <<>>, when |-> 0, enable |-> FALSE, heartbeats |-> {},
     completed |-> {}]

\* HeartbeatQueue::default(): disabled and empty; the clock at its origin,
\* nobody waiting for a tick.
InitHeartbeat ==
    /\ hq = [enable |-> FALSE, delay |-> {}, node_scheduled |-> EmptyMap]
    /\ clock = 0
    /\ ticks = [w \in Waiters |-> "idle"]
    /\ hlast = NoHeartbeatCall
    /\ hmin = [polled |-> EmptyMap, cleared |-> EmptyMap]

NoStatsCall == [op |-> "none", updates |-> <<>>, node_delta |-> <<>>]

\* OngoingStats::default().
InitStats ==
    /\ ongoing = [raw_group_delta |-> EmptyMap, node_view |-> EmptyMap,
                  node_delta |-> EmptyMap]
    /\ ongoing_call = NoStatsCall

\* ROOT_GROUP_ID and the groups nodes report; the replica ids of a group.
ROOT_GROUP_ID == 0
Groups == {ROOT_GROUP_ID, 1}
ReplicaIds == {1}
Reporters == {1, 2}

GroupDesc(id, epoch, replicas) == [id |-> id, epoch |-> epoch, replicas |-> replicas]
ReplicaState(group_id, replica_id, term, role) ==
    [group_id |-> group_id, replica_id |-> replica_id, term |-> term, role |-> role]

\* An Option is <<>> for None and <<x>> for Some(x).
NoUpdate == [group_id |-> 0, group_desc |-> <<>>, replica_state |-> <<>>,
             schedule_state |-> <<>>]
NoReport == [pc |-> "idle", u |-> NoUpdate, group_desc |-> <<>>, replica_state |-> <<>>]

\* The schema holds the descriptor of the root group at its first epoch and
\* the state of its replica at its first term; the other group has not
\* been reported yet.  No report runs.
InitReport ==
    /\ group_descs = [g \in {ROOT_GROUP_ID} |-> GroupDesc(ROOT_GROUP_ID, 1, {1})]
    /\ replica_states = [k \in {<<ROOT_GROUP_ID, 1>>} |->
                           ReplicaState(ROOT_GROUP_ID, 1, 1, "Leader")]
    /\ reports = [r \in Reporters |-> NoReport]

\* The components of the root that start empty.
InitRest == InitCatalog /\ InitBoot /\ InitHeartbeat /\ InitStats /\ InitReport

Init == InitShard(InitialChains) /\ InitRootGroup /\ InitNodes /\ InitRest

----------------------------------------------------------------------------
(* Actions of the shard.  The batch an evaluation returns is applied in the *)
(* step of the evaluation: the latches of its keys are held from the        *)
(* evaluation to the apply, so no other evaluation sees the state between.  *)
(* last describes the call that completed in the step into a state, and is  *)
(* NoCall after every other step.                                           *)

\* The key whose intent a suspended write_intent waits for.
WaitKey(e) == WriteAt(e.req, e.i).key

Released(t) == [k \in Keys |-> IF latch[k] = t THEN 0 ELSE latch[k]]
Acquired(t, req) == [k \in Keys |-> IF k \in KeysOf(req) THEN t ELSE latch[k]]

\* Whether the store holds an intent of the transaction started at
\* start_version.
HasIntentOf(s, start_version) ==
    \E k \in Keys : IsSome(read_target_intent(s, start_version, k))

\* A client begins a transaction: it obtains its start version from the
\* allocator.  It does so once its previous transaction is over and has
\* left no intent (clients are numbered in the order they first begin).
Begin(t, max_version) ==
    /\ \/ txn[t].state = "idle"
       \/ /\ txn[t].state \in {"committed", "aborted"}
          /\ ~HasIntentOf(store, txn[t].start)
    /\ \A u \in Txns : u < t => txn[u].state # "idle"
    /\ nextVer <= max_version
    /\ txn' = [txn EXCEPT ![t] = [state |-> "pending", start |-> nextVer, commit |-> 0,
                                  written |-> {}, finished |-> {}, done |-> {}]]
    /\ nextVer' = nextVer + 1
    /\ last' = NoCall
    /\ UNCHANGED <<store, ev, latch, adds, rootVars, adminVars, catalogVars, bootVars, hbVars, statsVars, reportVars>>

\* Where an evaluation of write_intent goes after a run: it waits in
\* resolve_txn; it fails, and its batch is dropped; or it returns, and its
\* batch, if any, is applied.
Continue(t, req, out, replay) ==
    /\ UNCHANGED <<nextVer, rootVars, adminVars, catalogVars, bootVars, hbVars, statsVars, reportVars>>
    /\ adds' = IF out.kind = "done" /\ out.acc.wb # <<>> /\ "a" \in KeysOf(req)
               THEN IF adds.only /\ Body(req.deletes, req.puts) = AddOne
                    THEN [adds EXCEPT !.contended = @ \/ out.acc.resolves # <<>>]
                    ELSE NoAdds
               ELSE adds
    /\ CASE out.kind = "blocked" ->
              /\ ev' = [ev EXCEPT ![t] =
                     [pc |-> "resolving", req |-> req, i |-> out.i, acc |-> out.acc,
                      intent |-> out.intent, prev |-> out.prev, signal |-> None,
                      replay |-> replay]]
              /\ latch' = Acquired(t, req)
              /\ last' = NoCall
              /\ UNCHANGED <<store, txn>>
         [] out.kind = "err" ->
              /\ ev' = [ev EXCEPT ![t] = IdleEval]
              /\ latch' = Released(t)
              /\ last' = Call("write_intent", t, req, out.err, FALSE, out.idx,
                              out.cond_idx, out.prev, out.acc, replay)
              /\ UNCHANGED <<store, txn>>
         [] out.kind = "done" ->
              /\ ev' = [ev EXCEPT ![t] = IdleEval]
              /\ latch' = Released(t)
              /\ last' = Call("write_intent", t, req, NoError, out.acc.wb # <<>>, 0, 0,
                              None, out.acc, replay)
              /\ store' = EngineCommit(store, out.acc.wb)
              /\ txn' = IF out.acc.wb = <<>> THEN txn
                        ELSE [txn EXCEPT
                                 ![t].written = @ \cup {Body(req.deletes, req.puts)},
                                 ![t].finished = {}]

\* A client sends a shard write of its transaction; the latches of the keys
\* are taken and write_intent runs to its first suspension point.
WriteIntent(t, body) ==
    /\ txn[t].state = "pending"
    /\ ev[t].pc = "idle"
    /\ LET req == Request(txn[t].start, 0, body.deletes, body.puts, <<>>)
       IN  /\ \A k \in KeysOf(req) : latch[k] = 0
           /\ Continue(t, req, write_intent(store, req, 1, EmptyAcc, None),
                       body \in txn[t].written)

\* resolve_txn returns to a waiting write_intent, which goes on.
ResolveDone(t) ==
    /\ ev[t].pc = "resolving"
    /\ IsSome(ev[t].signal)
    /\ LET e == ev[t]
           key == WaitKey(e)
           resolved == resolve_txn(e.intent[1], e.signal[1])
           prev_value == merge_resolved(e.prev, resolved)
           acc == [e.acc EXCEPT !.resolves = Append(@,
                      [key |-> key, intent |-> e.intent[1], signal |-> e.signal[1],
                       below |-> e.prev, prev_value |-> prev_value,
                       top |-> EngineGet(store, key)])]
       IN  Continue(t, e.req, write_intent(store, e.req, e.i, acc, Some(prev_value)),
                    e.replay)

\* The coordinator commits a transaction whose writes have returned: the
\* commit version comes from the allocator.
CommitTxn(t, max_version) ==
    /\ txn[t].state = "pending"
    /\ ev[t].pc = "idle"
    /\ nextVer <= max_version
    /\ txn' = [txn EXCEPT ![t].state = "committed", ![t].commit = nextVer]
    /\ nextVer' = nextVer + 1
    /\ last' = NoCall
    /\ UNCHANGED <<store, ev, latch, adds, rootVars, adminVars, catalogVars, bootVars, hbVars, statsVars, reportVars>>

\* A pending transaction is aborted: by its client, or by a write_intent
\* that waits for one of its intents (resolve_txn's force-abort).
AbortTxn(t) ==
    /\ txn[t].state = "pending"
    /\ \/ ev[t].pc = "idle"
       \/ \E b \in Txns : /\ ev[b].pc = "resolving"
                          /\ IsSome(ev[b].intent)
                          /\ ev[b].intent[1].start_version = txn[t].start
    /\ txn' = [txn EXCEPT ![t].state = "aborted"]
    /\ last' = NoCall
    /\ UNCHANGED <<store, nextVer, ev, latch, adds, rootVars, adminVars, catalogVars, bootVars, hbVars, statsVars, reportVars>>

\* signal_all: every write_intent waiting on one of the keys for an intent
\* of this transaction is woken with the terminal state.
signal_all(req, state, commit_version) ==
    [b \in Txns |->
        IF /\ ev[b].pc = "resolving"
           /\ WaitKey(ev[b]) \in KeysOf(req)
           /\ ev[b].intent[1].start_version = req.start_version
        THEN [ev[b] EXCEPT !.signal =
                 Some([state |-> state, commit_version |-> commit_version])]
        ELSE ev[b]]

\* A key can be latched by commit_intent / clear_intent when it is free or
\* its holder is suspended in resolve_txn on it.
FinCanLatch(k) ==
    IF latch[k] = 0 THEN TRUE
    ELSE /\ ev[latch[k]].pc = "resolving"
         /\ WaitKey(ev[latch[k]]) = k

\* commit_intent / clear_intent is evaluated and its batch, if any, applied;
\* then the signal deferred by the latch guard is sent.
FinEval(op, t, req, wb) ==
    /\ \A i \in 1..Len(req.keys) : FinCanLatch(req.keys[i])
    /\ store' = EngineCommit(store, wb)
    /\ ev' = IF op = "commit_intent"
             THEN signal_all(req, "Committed", req.commit_version)
             ELSE signal_all(req, "Aborted", 0)
    /\ txn' = [txn EXCEPT
           ![t].finished = IF wb = <<>> THEN @ ELSE @ \cup {req.keys},
           ![t].written = IF wb = <<>> THEN @ ELSE {},
           ![t].done = IF op = "commit_intent" THEN @ \cup KeysOf(req) ELSE @]
    /\ adds' = IF op = "commit_intent" /\ "a" \in KeysOf(req) /\ "a" \notin txn[t].done
                  /\ AddOne \in txn[t].written /\ adds.only
               THEN [adds EXCEPT !.n = @ + 1] ELSE adds
    /\ last' = Call(op, t, req, NoError, wb # <<>>, 0, 0, None, EmptyAcc,
                    req.keys \in txn[t].finished)
    /\ UNCHANGED <<nextVer, latch, rootVars, adminVars, catalogVars, bootVars, hbVars, statsVars, reportVars>>

CommitIntent(t, keys) ==
    /\ txn[t].state = "committed"
    /\ LET req == Request(txn[t].start, txn[t].commit, <<>>, <<>>, keys)
       IN  FinEval("commit_intent", t, req, commit_intent(store, req, 1, <<>>))

ClearIntent(t, keys) ==
    /\ txn[t].state = "aborted"
    /\ LET req == Request(txn[t].start, 0, <<>>, <<>>, keys)
       IN  FinEval("clear_intent", t, req, clear_intent(store, req, 1, <<>>))

ShardNext(bodies, max_version) ==
    \/ \E t \in Txns : Begin(t, max_version)
    \/ \E t \in Txns, body \in bodies : WriteIntent(t, body)
    \/ \E t \in Txns : ResolveDone(t)
    \/ \E t \in Txns : CommitTxn(t, max_version)
    \/ \E t \in Txns : AbortTxn(t)
    \/ \E t \in Txns, keys \in KeyLists : CommitIntent(t, keys)
    \/ \E t \in Txns, keys \in KeyLists : ClearIntent(t, keys)

\* The clients send any of the shard writes.
Next == ShardNext(WriteBodies, MaxVersion)
Spec == Init /\ [][Next]_vars

\* The clients only increment key "a" (WriteBuilder::ensure_add(1)).
NextAdd == ShardNext({AddOne}, MaxAddVersion)
SpecAdd == Init /\ [][NextAdd]_vars

\* The clients send increments of every kind against every previous value.
InitApply ==
    InitShard(ApplyChains) /\ InitRootGroup /\ InitNodes /\ InitRest
NextApply == ShardNext(ApplyBodies, MaxApplyVersion)
SpecApply == InitApply /\ [][NextApply]_vars

----------------------------------------------------------------------------
(* The root leader and its txn-id allocator *)

\* The reservation bump_txn_id adds: 5000000000 ns, in units of 2.5 s.  The
\* wall clock and the ids are in the same unit.
RESERVATION == 2

Max(a, b) == IF a >= b THEN a ELSE b

\* RootCore as step_leader builds it, with the state of the bumper task
\* spawned for it and the history of the calls that returned an id from it:
\* the first id, the largest id, and the largest end (id + n) of a range.
RootCore(nd, max_txn_id) ==
    [node |-> nd, next_txn_id |-> max_txn_id, max_txn_id |-> max_txn_id,
     bumper |-> "none", bump |-> 0, dropped |-> FALSE,
     first |-> -1, top |-> -1, end |-> 0]

\* A bump that reserves nothing.
bump_without_reservation(core, timestamp_nanos) == Max(core.max_txn_id, timestamp_nanos)

\* What bump_txn_id persists and then stores.
bump_txn_id(core, timestamp_nanos) == Max(core.max_txn_id, timestamp_nanos) + RESERVATION

\* drop(txn_bumper_handle): the task is aborted where it sleeps; a task that
\* is past set_txn_id runs on to its next sleep.
drop_bumper(core) ==
    [core EXCEPT !.dropped = TRUE,
                 !.bumper = IF @ = "sleep" THEN "dead" ELSE @]

\* The lease of the root group moves to a node, or to none (0).
LeaseMoves(holder) ==
    /\ leader # holder
    /\ leader' = holder
    /\ UNCHANGED <<schema_txn_id, step, shared_core, cores, alloc, shardVars, adminVars, catalogVars, bootVars, hbVars, statsVars, reportVars>>

\* run_schedule sees the node lead and step_leader starts: it loads the
\* persisted max_txn_id and builds the core, next and max both set to it.
StepLeaderLoad(nd) ==
    /\ step[nd].pc = "follower"
    /\ leader = nd
    /\ Len(cores) < MaxCores
    /\ cores' = Append(cores, RootCore(nd, schema_txn_id))
    /\ step' = [step EXCEPT ![nd] = [pc |-> "bump", root_core |-> Len(cores) + 1]]
    /\ UNCHANGED <<leader, schema_txn_id, shared_core, alloc, shardVars, adminVars, catalogVars, bootVars, hbVars, statsVars, reportVars>>

\* The first bump_txn_id of step_leader.  The core is not yet published and
\* has no bumper, so nothing runs between its set_txn_id and its store.  When
\* the node no longer leads, set_txn_id fails and step_leader returns.
StepLeaderBump(nd, timestamp_nanos) ==
    /\ step[nd].pc = "bump"
    /\ LET e == step[nd].root_core
           next_txn_id == bump_txn_id(cores[e], timestamp_nanos)
       IN  IF leader = nd
           THEN /\ next_txn_id <= MaxTxnId
                /\ schema_txn_id' = next_txn_id
                /\ cores' = [cores EXCEPT ![e].max_txn_id = next_txn_id]
                /\ step' = [step EXCEPT ![nd].pc = "publish"]
           ELSE /\ timestamp_nanos = 0
                /\ step' = [step EXCEPT ![nd] = Follower]
                /\ UNCHANGED <<schema_txn_id, cores>>
    /\ UNCHANGED <<leader, shared_core, alloc, shardVars, adminVars, catalogVars, bootVars, hbVars, statsVars, reportVars>>

\* step_leader spawns the bumper and publishes the core.
StepLeaderPublish(nd) ==
    /\ step[nd].pc = "publish"
    /\ cores' = [cores EXCEPT ![step[nd].root_core].bumper = "sleep"]
    /\ shared_core' = [shared_core EXCEPT ![nd] = step[nd].root_core]
    /\ step' = [step EXCEPT ![nd].pc = "published"]
    /\ UNCHANGED <<leader, schema_txn_id, alloc, shardVars, adminVars, catalogVars, bootVars, hbVars, statsVars, reportVars>>

\* Between the publication and the loop step_leader calls
\* jobs.on_step_leader and schema.list_node with `?`: when the node no
\* longer leads, step_leader returns the error from there; the bumper handle
\* is dropped with it, and the core stays published.
StepLeaderReady(nd) ==
    /\ step[nd].pc = "published"
    /\ IF leader = nd
       THEN /\ step' = [step EXCEPT ![nd].pc = "leading"]
            /\ cores' = cores
       ELSE /\ step' = [step EXCEPT ![nd] = Follower]
            /\ cores' = [cores EXCEPT ![step[nd].root_core] = drop_bumper(@)]
    /\ UNCHANGED <<leader, schema_txn_id, shared_core, alloc, shardVars, adminVars, catalogVars, bootVars, hbVars, statsVars, reportVars>>

\* The loop of step_leader polls on_leader and finds the lease lost: the
\* bumper handle is dropped and max_txn_id is set to 0.
LeaseLost(nd) ==
    /\ step[nd].pc = "leading"
    /\ leader # nd
    /\ cores' = [cores EXCEPT ![step[nd].root_core] =
                    [drop_bumper(@) EXCEPT !.max_txn_id = 0]]
    /\ step' = [step EXCEPT ![nd].pc = "unpublish"]
    /\ UNCHANGED <<leader, schema_txn_id, shared_core, alloc, shardVars, adminVars, catalogVars, bootVars, hbVars, statsVars, reportVars>>

\* step_leader sets RootShared::core to None and returns.
StepFollower(nd) ==
    /\ step[nd].pc = "unpublish"
    /\ shared_core' = [shared_core EXCEPT ![nd] = 0]
    /\ step' = [step EXCEPT ![nd] = Follower]
    /\ UNCHANGED <<leader, schema_txn_id, cores, alloc, shardVars, adminVars, catalogVars, bootVars, hbVars, statsVars, reportVars>>

\* The bumper wakes and calls bump_txn_id: set_txn_id persists the new
\* maximum when the node leads, and fails otherwise, which ends the task.
BumperPersist(e, timestamp_nanos) ==
    /\ e \in 1..Len(cores)
    /\ cores[e].bumper = "sleep"
    /\ LET next_txn_id == bump_txn_id(cores[e], timestamp_nanos)
       IN  IF leader = cores[e].node
           THEN /\ next_txn_id <= MaxTxnId
                /\ schema_txn_id' = next_txn_id
                /\ cores' = [cores EXCEPT ![e].bumper = "store", ![e].bump = next_txn_id]
           ELSE /\ timestamp_nanos = 0
                /\ schema_txn_id' = schema_txn_id
                /\ cores' = [cores EXCEPT ![e].bumper = "dead"]
    /\ UNCHANGED <<leader, step, shared_core, alloc, shardVars, adminVars, catalogVars, bootVars, hbVars, statsVars, reportVars>>

\* bump_txn_id stores the maximum it persisted.
BumperStore(e) ==
    /\ e \in 1..Len(cores)
    /\ cores[e].bumper = "store"
    /\ cores' = [cores EXCEPT ![e].max_txn_id = cores[e].bump,
                              ![e].bump = 0,
                              ![e].bumper = IF cores[e].dropped THEN "dead" ELSE "sleep"]
    /\ UNCHANGED <<leader, schema_txn_id, step, shared_core, alloc, shardVars, adminVars, catalogVars, bootVars, hbVars, statsVars, reportVars>>

\* alloc_txn_id is called on a node: root_core() clones the published core.
\* So far every call that returned from this core did so before this call.
AllocStart(c, nd, num_required) ==
    /\ alloc[c].pc = "idle"
    /\ shared_core[nd] # 0
    /\ alloc' = [alloc EXCEPT ![c] =
           [pc |-> "load", root_core |-> shared_core[nd], num_required |-> num_required,
            next_txn_id |-> 0, overlapped |-> FALSE]]
    /\ UNCHANGED <<leader, schema_txn_id, step, shared_core, cores, shardVars, adminVars, catalogVars, bootVars, hbVars, statsVars, reportVars>>

\* Only the first id required is compared with max_txn_id.
fits_at_start(next_txn_id, num_required, max_txn_id) == next_txn_id <= max_txn_id

\* `if next_txn_id + num_required > max_txn_id { yield_now; continue }`: the
\* ids required fit below max_txn_id.
fits(next_txn_id, num_required, max_txn_id) == next_txn_id + num_required <= max_txn_id

\* The two loads of the loop of alloc_txn_id: NotLeader when max_txn_id is
\* 0; on to the compare_exchange when the ids fit below max_txn_id; and
\* otherwise a yield, after which it loads again.
AllocLoad(c) ==
    /\ alloc[c].pc = "load"
    /\ LET core == cores[alloc[c].root_core]
           next_txn_id == core.next_txn_id
           max_txn_id == core.max_txn_id
       IN  /\ max_txn_id = 0 \/ fits(next_txn_id, alloc[c].num_required, max_txn_id)
           /\ alloc' = [alloc EXCEPT ![c] =
                  IF max_txn_id = 0 THEN IdleAlloc
                  ELSE [@ EXCEPT !.pc = "cas", !.next_txn_id = next_txn_id]]
    /\ UNCHANGED <<leader, schema_txn_id, step, shared_core, cores, shardVars, adminVars, catalogVars, bootVars, hbVars, statsVars, reportVars>>

\* A plain store in place of the compare_exchange: it always succeeds.
store_next(current, expected) == TRUE

\* AtomicU64::compare_exchange succeeds when the value is the expected one.
compare_exchange(current, expected) == current = expected

\* The calls in flight after call c returned an id from core e: c is over,
\* and the other calls on e have seen a call return since they started.
AfterReturn(c, e) ==
    [d \in Callers |->
        IF d = c THEN IdleAlloc
        ELSE IF alloc[d].pc # "idle" /\ alloc[d].root_core = e
             THEN [alloc[d] EXCEPT !.overlapped = TRUE]
             ELSE alloc[d]]

\* The compare_exchange of alloc_txn_id: on success next_txn_id advances and
\* the call returns the id it loaded; on failure it loads again.
AllocCas(c) ==
    /\ alloc[c].pc = "cas"
    /\ LET e == alloc[c].root_core
           id == alloc[c].next_txn_id
           n == alloc[c].num_required
       IN  IF compare_exchange(cores[e].next_txn_id, id)
           THEN /\ cores' = [cores EXCEPT
                       ![e].next_txn_id = id + n,
                       ![e].first = IF @ = -1 THEN id ELSE @,
                       ![e].top = Max(@, id),
                       ![e].end = IF n = 0 THEN @ ELSE Max(@, id + n)]
                /\ alloc' = AfterReturn(c, e)
           ELSE /\ cores' = cores
                /\ alloc' = [alloc EXCEPT ![c].pc = "load"]
    /\ UNCHANGED <<leader, schema_txn_id, step, shared_core, shardVars, adminVars, catalogVars, bootVars, hbVars, statsVars, reportVars>>

\* The root group on the nodes given, the lease moving between the holders
\* given, with the callers given.
RootNext(nodes, holders, callers) ==
    \/ \E holder \in holders : LeaseMoves(holder)
    \/ \E nd \in nodes : StepLeaderLoad(nd)
    \/ \E nd \in nodes, now \in 0..MaxClock : StepLeaderBump(nd, now)
    \/ \E nd \in nodes : StepLeaderPublish(nd)
    \/ \E nd \in nodes : StepLeaderReady(nd)
    \/ \E nd \in nodes : LeaseLost(nd)
    \/ \E nd \in nodes : StepFollower(nd)
    \/ \E e \in 1..MaxCores, now \in 0..MaxClock : BumperPersist(e, now)
    \/ \E e \in 1..MaxCores : BumperStore(e)
    \/ \E c \in callers, nd \in nodes, n \in NumsRequired : AllocStart(c, nd, n)
    \/ \E c \in callers : AllocLoad(c)
    \/ \E c \in callers : AllocCas(c)

\* The shard holds nothing while the root group runs.
InitRoot == Init /\ store = EmptyStore

\* One node that gains and loses the lease, and concurrent callers.
NextRoot == RootNext({1}, {0, 1}, Callers)
SpecRoot == InitRoot /\ [][NextRoot]_vars

\* Two nodes that hand the lease to each other, and one caller.
NextHandoff == RootNext(Nodes, Nodes, {1})
SpecHandoff == InitRoot /\ [][NextHandoff]_vars

\* The runtime schedules every task that can run: run_schedule and
\* step_leader on each node, the bumper of each core, and every
\* alloc_txn_id call once it is made.  Nothing makes the lease move, and
\* nothing makes a client call.
FairRoot(nodes, callers) ==
    /\ \A nd \in nodes :
          /\ WF_vars(StepLeaderLoad(nd))
          /\ WF_vars(\E now \in 0..MaxClock : StepLeaderBump(nd, now))
          /\ WF_vars(StepLeaderPublish(nd))
          /\ WF_vars(StepLeaderReady(nd))
          /\ WF_vars(LeaseLost(nd))
          /\ WF_vars(StepFollower(nd))
    /\ \A e \in 1..MaxCores :
          /\ WF_vars(\E now \in 0..MaxClock : BumperPersist(e, now))
          /\ WF_vars(BumperStore(e))
    /\ \A c \in callers :
          /\ WF_vars(AllocLoad(c))
          /\ WF_vars(AllocCas(c))

\* One node that gains and loses the lease, and one caller, every task
\* scheduled fairly.
NextPending == RootNext({1}, {0, 1}, {1})
SpecPending == InitRoot /\ [][NextPending]_vars /\ FairRoot({1}, {1})

----------------------------------------------------------------------------
(* Node lifecycle: cordon_node, uncordon_node, begin_drain *)

\* NodeStatus, and the calls an admin client makes.
NodeStatuses == {"Active", "Cordoned", "Draining", "Drained", "Decommissioned"}
AdminOps == {"cordon_node", "uncordon_node", "begin_drain"}

\* current_node_id() of the Root that serves the calls.
RootNode == CHOOSE nd \in AdminNodes : \A other \in AdminNodes : nd <= other

\* schema.get_node(node_id): the status of the descriptor, "" for None.
get_node(node_id) == IF node_id \in AdminNodes THEN node_status[node_id] ELSE ""

\* `if !matches!(current_status, ..)`: the statuses a call goes on from.
Accepts(op, current_status) ==
    CASE op = "cordon_node" -> current_status = "Active"
      [] op = "uncordon_node" ->
           current_status \in {"Cordoned", "Drained", "Decommissioned"}
      [] op = "begin_drain" -> current_status = "Cordoned"

\* The status a call writes into the descriptor.
NewStatus(op) ==
    CASE op = "cordon_node" -> "Cordoned"
      [] op = "uncordon_node" -> "Active"
      [] op = "begin_drain" -> "Draining"

\* A call returns.
AdminReturn(a, result) == [admin EXCEPT ![a].pc = "idle", ![a].result = result]

\* A call is made on the root node: schema() needs the published core (the
\* call returns NotRootLeader at once without it).  begin_drain of the root
\* node itself sets up ShedRoot and refuses.
AdminStart(a, op, node_id) ==
    /\ admin[a].pc = "idle"
    /\ shared_core[RootNode] # 0
    /\ IF op = "begin_drain" /\ node_id = RootNode
       THEN /\ tasks' = tasks \cup {<<"ShedRoot", node_id>>}
            /\ admin' = [admin EXCEPT ![a] =
                   [pc |-> "idle", op |-> op, node_id |-> node_id, status |-> "",
                    result |-> "InvalidArgument"]]
       ELSE /\ tasks' = tasks
            /\ admin' = [admin EXCEPT ![a] =
                   [pc |-> "get", op |-> op, node_id |-> node_id, status |-> "",
                    result |-> ""]]
    /\ UNCHANGED <<node_status, shardVars, rootVars, catalogVars, bootVars, hbVars, statsVars, reportVars>>

\* get_node returns and the status is checked: InvalidArgument for an
\* unknown node and for a status the call does not accept.
AdminGet(a) ==
    /\ admin[a].pc = "get"
    /\ LET current_status == get_node(admin[a].node_id)
       IN  admin' = IF current_status = "" \/ ~Accepts(admin[a].op, current_status)
                    THEN AdminReturn(a, "InvalidArgument")
                    ELSE [admin EXCEPT ![a].pc = "update", ![a].status = current_status]
    /\ UNCHANGED <<node_status, tasks, shardVars, rootVars, catalogVars, bootVars, hbVars, statsVars, reportVars>>

\* update_node writes the descriptor with the new status (no compare and
\* swap); it fails when the node no longer leads the root group.
AdminUpdate(a) ==
    /\ admin[a].pc = "update"
    /\ IF leader = RootNode
       THEN /\ node_status' = [node_status EXCEPT ![admin[a].node_id] = NewStatus(admin[a].op)]
            /\ admin' = IF admin[a].op = "begin_drain"
                         THEN [admin EXCEPT ![a].pc = "setup"]
                         ELSE AdminReturn(a, "Ok")
       ELSE /\ node_status' = node_status
            /\ admin' = AdminReturn(a, "NotLeader")
    /\ UNCHANGED <<tasks, shardVars, rootVars, catalogVars, bootVars, hbVars, statsVars, reportVars>>

\* begin_drain sets up the ShedLeader task and returns.
AdminSetup(a) ==
    /\ admin[a].pc = "setup"
    /\ tasks' = tasks \cup {<<"ShedLeader", admin[a].node_id>>}
    /\ admin' = AdminReturn(a, "Ok")
    /\ UNCHANGED <<node_status, shardVars, rootVars, catalogVars, bootVars, hbVars, statsVars, reportVars>>

\* The root node leads, its core published and its step_leader in the loop;
\* the nodes are in any status of their lifecycle.
InitAdmin ==
    /\ InitShard({{}})
    /\ leader = RootNode
    /\ schema_txn_id = RESERVATION
    /\ cores = <<[RootCore(RootNode, 0) EXCEPT !.max_txn_id = RESERVATION,
                                                !.bumper = "sleep"]>>
    /\ step = [nd \in Nodes |->
                 IF nd = RootNode THEN [pc |-> "leading", root_core |-> 1] ELSE Follower]
    /\ shared_core = [nd \in Nodes |-> IF nd = RootNode THEN 1 ELSE 0]
    /\ alloc = [c \in Callers |-> IdleAlloc]
    /\ node_status \in [AdminNodes -> NodeStatuses]
    /\ tasks = {}
    /\ admin = [a \in AdminClients |-> IdleAdmin]
    /\ InitRest

\* Concurrent admin calls on the root node, which may lose the lease and
\* step down.
NextAdmin ==
    \/ \E a \in AdminClients, op \in AdminOps, node_id \in NodeIds : AdminStart(a, op, node_id)
    \/ \E a \in AdminClients : AdminGet(a)
    \/ \E a \in AdminClients : AdminUpdate(a)
    \/ \E a \in AdminClients : AdminSetup(a)
    \/ LeaseMoves(0)
    \/ LeaseLost(RootNode)
    \/ StepFollower(RootNode)
SpecAdmin == InitAdmin /\ [][NextAdmin]_vars

----------------------------------------------------------------------------
(* Deleting databases and collections *)

DbNames == {"sys", "db", "nodb"}
CollectionNames == {"txn", "co", "noco"}
DdlOps == {"delete_database", "delete_collection"}

\* schema.get_database(name): the descriptor, NoDatabase for None.
get_database(name) ==
    IF \E db \in databases : db.name = name
    THEN CHOOSE db \in databases : db.name = name
    ELSE NoDatabase

\* schema.get_collection(db_id, name): the descriptor, NoCollection for None.
get_collection(db_id, name) ==
    IF \E co \in collections : co.db = db_id /\ co.name = name
    THEN CHOOSE co \in collections : co.db = db_id /\ co.name = name
    ELSE NoCollection

\* A delete_database that checks nothing.
any_database_deletable(db) == FALSE

\* `db.id == sekas_schema::system::db::ID`
is_system_database(db) == db.id = SYSTEM_DB_ID

\* `collection.id < sekas_schema::FIRST_USER_COLLECTION_ID`
is_system_collection(collection) == collection.id < FIRST_USER_COLLECTION_ID

\* The purge job a delete submits.
PurgeDatabaseJob(db) == [job |-> "PurgeDatabase", id |-> db.id]
PurgeCollectionJob(collection) == [job |-> "PurgeCollection", id |-> collection.id]

\* A call returns.
DdlReturn(a, result) == [ddl EXCEPT ![a].pc = "idle", ![a].result = result]

\* delete_database(name) or delete_collection(name, database) is made on the
\* root node: schema() needs the published core (the call returns
\* NotRootLeader at once without it).
DdlStart(a, op, name, database) ==
    /\ ddl[a].pc = "idle"
    /\ shared_core[RootNode] # 0
    /\ op = "delete_database" => database = name
    /\ ddl' = [ddl EXCEPT ![a] =
           [pc |-> "get_database", op |-> op, name |-> name, database |-> database,
            db |-> NoDatabase, collection |-> NoCollection, result |-> ""]]
    /\ UNCHANGED <<databases, collections, jobs, shardVars, rootVars, adminVars, bootVars, hbVars, statsVars, reportVars>>

\* self.get_database(..): schema() once more, then the lookup by name.  None
\* is DatabaseNotFound; delete_database refuses the system database.
DdlGetDatabase(a) ==
    /\ ddl[a].pc = "get_database"
    /\ LET db == get_database(ddl[a].database)
       IN  ddl' =
             IF shared_core[RootNode] = 0 THEN DdlReturn(a, "NotRootLeader")
             ELSE IF db = NoDatabase THEN DdlReturn(a, "DatabaseNotFound")
             ELSE IF ddl[a].op = "delete_collection"
                  THEN [ddl EXCEPT ![a].pc = "get_collection", ![a].db = db]
             ELSE IF is_system_database(db) THEN DdlReturn(a, "InvalidArgument")
             ELSE [ddl EXCEPT ![a].pc = "submit", ![a].db = db]
    /\ UNCHANGED <<databases, collections, jobs, shardVars, rootVars, adminVars, bootVars, hbVars, statsVars, reportVars>>

\* schema.get_collection(db.id, name): None ends the call with Ok;
\* delete_collection refuses a system collection.
DdlGetCollection(a) ==
    /\ ddl[a].pc = "get_collection"
    /\ LET collection == get_collection(ddl[a].db.id, ddl[a].name)
       IN  ddl' =
             IF collection = NoCollection THEN DdlReturn(a, "Ok")
             ELSE IF is_system_collection(collection)
                  THEN DdlReturn(a, "InvalidArgument")
             ELSE [ddl EXCEPT ![a].pc = "submit", ![a].collection = collection]
    /\ UNCHANGED <<databases, collections, jobs, shardVars, rootVars, adminVars, bootVars, hbVars, statsVars, reportVars>>

\* self.jobs.submit(.., false): the job is appended to the job list in the
\* schema; the write fails when the node no longer leads the root group.
DdlSubmit(a) ==
    /\ ddl[a].pc = "submit"
    /\ IF leader = RootNode
       THEN /\ jobs' = jobs \cup
                   {IF ddl[a].op = "delete_database"
                    THEN PurgeDatabaseJob(ddl[a].db)
                    ELSE PurgeCollectionJob(ddl[a].collection)}
            /\ ddl' = [ddl EXCEPT ![a].pc = "delete"]
       ELSE /\ jobs' = jobs
            /\ ddl' = DdlReturn(a, "NotLeader")
    /\ UNCHANGED <<databases, collections, shardVars, rootVars, adminVars, bootVars, hbVars, statsVars, reportVars>>

\* schema.delete_database(&db) after another schema(), or
\* schema.delete_collection(collection) on the schema the call holds: the
\* descriptor is removed; the write fails when the node no longer leads.
DdlDelete(a) ==
    /\ ddl[a].pc = "delete"
    /\ IF ddl[a].op = "delete_database" /\ shared_core[RootNode] = 0
       THEN /\ ddl' = DdlReturn(a, "NotRootLeader")
            /\ UNCHANGED <<databases, collections>>
       ELSE IF leader # RootNode
       THEN /\ ddl' = DdlReturn(a, "NotLeader")
            /\ UNCHANGED <<databases, collections>>
       ELSE /\ ddl' = DdlReturn(a, "Ok")
            /\ IF ddl[a].op = "delete_database"
               THEN /\ databases' = databases \ {ddl[a].db}
                    /\ collections' = collections
               ELSE /\ databases' = databases
                    /\ collections' = collections \ {ddl[a].collection}
    /\ UNCHANGED <<jobs, shardVars, rootVars, adminVars, bootVars, hbVars, statsVars, reportVars>>

\* The root node leads, its core published and its step_leader in the loop.
InitDdl == InitAdmin /\ node_status = [n \in AdminNodes |-> "Active"]

\* Concurrent delete calls on the root node, which may lose the lease and
\* step down.
NextDdl ==
    \/ \E a \in AdminClients, op \in DdlOps, name \in DbNames \cup CollectionNames,
          database \in DbNames : DdlStart(a, op, name, database)
    \/ \E a \in AdminClients : DdlGetDatabase(a)
    \/ \E a \in AdminClients : DdlGetCollection(a)
    \/ \E a \in AdminClients : DdlSubmit(a)
    \/ \E a \in AdminClients : DdlDelete(a)
    \/ LeaseMoves(0)
    \/ LeaseLost(RootNode)
    \/ StepFollower(RootNode)
SpecDdl == InitDdl /\ [][NextDdl]_vars

----------------------------------------------------------------------------
(* Starting a server on a data directory: bootstrap or join *)

\* FIRST_NODE_ID, the id of the node that bootstraps the cluster.
FIRST_NODE_ID == 0

\* The cap of the backoff between join requests (120 s in the code), kept
\* small so that the doublings are few.
BACKOFF_CAP == 4

\* The join requests the roots answer in one run.
MaxJoins == 2

Min(a, b) == IF a <= b THEN a ELSE b

\* The clusters a join list may lead to, and the addresses of a join list.
ClusterIds == {"c1", "c2"}
LocalAddr == "local"
JoinLists == {{}, {LocalAddr}, {LocalAddr, "root"}}

NodeIdent(cluster_id, node_id) == [cluster_id |-> cluster_id, node_id |-> node_id]

\* A start that takes whatever the state engine holds for no ident.
read_ident_ignored(stored) == FALSE

\* `if let Some(node_ident) = state_engine.read_ident().await?`
read_ident_some(stored) == stored # NoIdent

\* The process ends: it returned an error, or it was stopped.
BootExit(result) == [Stopped EXCEPT !.result = result]

\* The server is started on the data directory with its configuration.
BootStart(init, join_list) ==
    /\ boot.pc = "stopped"
    /\ boot' = [Stopped EXCEPT !.pc = "read_ident", !.init = init, !.join_list = join_list]
    /\ UNCHANGED <<ident, disk, joined, shardVars, rootVars, adminVars, catalogVars, hbVars, statsVars, reportVars>>

\* bootstrap_or_join_cluster reads the ident: a stored ident goes to
\* reload_root_from_engine; none goes to bootstrap_cluster with --init and
\* to try_join_cluster otherwise, which refuses a join list that is empty
\* once the local address is filtered out.
BootReadIdent(ok) ==
    /\ boot.pc = "read_ident"
    /\ boot' =
          IF ~ok THEN BootExit("Err")
          ELSE IF read_ident_some(ident) THEN [boot EXCEPT !.pc = "reload_root"]
          ELSE IF boot.init THEN [boot EXCEPT !.pc = "create_root_group"]
          ELSE IF boot.join_list \ {LocalAddr} = {} THEN BootExit("InvalidArgument")
          ELSE [boot EXCEPT !.pc = "join"]
    /\ UNCHANGED <<ident, disk, joined, shardVars, rootVars, adminVars, catalogVars, hbVars, statsVars, reportVars>>

\* node.reload_root_from_engine(), then the stored ident is returned.
BootReloadRoot(ok) ==
    /\ boot.pc = "reload_root"
    /\ boot' = IF ok THEN [boot EXCEPT !.pc = "running", !.result = "Ok", !.returned = ident]
               ELSE BootExit("Err")
    /\ UNCHANGED <<ident, disk, joined, shardVars, rootVars, adminVars, catalogVars, hbVars, statsVars, reportVars>>

\* write_initial_cluster_data: the replica of the root group.
BootCreateRootGroup(ok) ==
    /\ boot.pc = "create_root_group"
    /\ IF ok
       THEN /\ disk' = [disk EXCEPT !.root_group = TRUE]
            /\ boot' = [boot EXCEPT !.pc = "create_init_group"]
       ELSE /\ disk' = disk
            /\ boot' = BootExit("Err")
    /\ UNCHANGED <<ident, joined, shardVars, rootVars, adminVars, catalogVars, hbVars, statsVars, reportVars>>

\* write_initial_cluster_data: the replica of the first user group.
BootCreateInitGroup(ok) ==
    /\ boot.pc = "create_init_group"
    /\ IF ok
       THEN /\ disk' = [disk EXCEPT !.init_group = TRUE]
            /\ boot' = [boot EXCEPT !.pc = "update_root"]
       ELSE /\ disk' = disk
            /\ boot' = BootExit("Err")
    /\ UNCHANGED <<ident, joined, shardVars, rootVars, adminVars, catalogVars, hbVars, statsVars, reportVars>>

\* node.update_root(..): the last write of write_initial_cluster_data, after
\* which bootstrap_cluster saves the ident; in try_join_cluster it follows
\* save_node_ident, whose result is returned when it succeeds.
BootUpdateRoot(ok) ==
    /\ boot.pc = "update_root"
    /\ IF ok
       THEN /\ disk' = [disk EXCEPT !.root_desc = TRUE]
            /\ boot' = IF boot.init THEN [boot EXCEPT !.pc = "save_ident"]
                       ELSE IF boot.saved = "Ok"
                            THEN [boot EXCEPT !.pc = "running", !.result = "Ok", !.returned = ident]
                       ELSE BootExit("Err")
       ELSE /\ disk' = disk
            /\ boot' = BootExit("Err")
    /\ UNCHANGED <<ident, joined, shardVars, rootVars, adminVars, catalogVars, hbVars, statsVars, reportVars>>

\* root_client.join_node(req): the root assigns the next node id of its
\* cluster and answers with it; a request that fails, or whose answer is
\* lost, is sent again after the backoff (a failure at the cap of the
\* backoff changes nothing).
BootJoin(cluster_id, outcome) ==
    /\ boot.pc = "join"
    /\ LET node_id ==
             FIRST_NODE_ID + 1 + Cardinality({j \in joined : j.cluster_id = cluster_id})
           retry == [boot EXCEPT !.backoff = Min(boot.backoff * 2, BACKOFF_CAP)]
       IN  CASE outcome = "ok" ->
                  /\ Cardinality(joined) < MaxJoins
                  /\ joined' = joined \cup {NodeIdent(cluster_id, node_id)}
                  /\ boot' = [boot EXCEPT !.pc = "save_ident",
                                          !.res = NodeIdent(cluster_id, node_id)]
             [] outcome = "lost" ->
                  /\ Cardinality(joined) < MaxJoins
                  /\ joined' = joined \cup {NodeIdent(cluster_id, node_id)}
                  /\ boot' = retry
             [] outcome = "err" ->
                  /\ boot.backoff < BACKOFF_CAP
                  /\ joined' = joined
                  /\ boot' = retry
    /\ UNCHANGED <<ident, disk, shardVars, rootVars, adminVars, catalogVars, hbVars, statsVars, reportVars>>

\* save_node_ident: state_engine.save_ident(&node_ident).  bootstrap_cluster
\* saves the empty cluster id with FIRST_NODE_ID and returns the ident;
\* try_join_cluster saves what the root answered and goes on to update_root
\* whatever the result.
BootSaveIdent(ok) ==
    /\ boot.pc = "save_ident"
    /\ LET node_ident == IF boot.init THEN NodeIdent("", FIRST_NODE_ID)
                         ELSE NodeIdent(boot.res.cluster_id, boot.res.node_id)
       IN  /\ ident' = IF ok THEN node_ident ELSE ident
           /\ boot' =
                 IF boot.init
                 THEN IF ok THEN [boot EXCEPT !.pc = "running", !.result = "Ok",
                                                 !.returned = node_ident]
                      ELSE BootExit("Err")
                 ELSE [boot EXCEPT !.pc = "update_root",
                                   !.saved = IF ok THEN "Ok" ELSE "Err"]
    /\ UNCHANGED <<disk, joined, shardVars, rootVars, adminVars, catalogVars, hbVars, statsVars, reportVars>>

\* The process is stopped or killed, anywhere; the data directory stays.
BootStop ==
    /\ boot.pc # "stopped"
    /\ boot' = BootExit("")
    /\ UNCHANGED <<ident, disk, joined, shardVars, rootVars, adminVars, catalogVars, hbVars, statsVars, reportVars>>

NextBoot ==
    \/ \E init \in BOOLEAN, join_list \in JoinLists : BootStart(init, join_list)
    \/ \E ok \in BOOLEAN : BootReadIdent(ok)
    \/ \E ok \in BOOLEAN : BootReloadRoot(ok)
    \/ \E ok \in BOOLEAN : BootCreateRootGroup(ok)
    \/ \E ok \in BOOLEAN : BootCreateInitGroup(ok)
    \/ \E ok \in BOOLEAN : BootUpdateRoot(ok)
    \/ \E cluster_id \in ClusterIds, outcome \in {"ok", "lost", "err"} :
          BootJoin(cluster_id, outcome)
    \/ \E ok \in BOOLEAN : BootSaveIdent(ok)
    \/ BootStop
SpecBoot == Init /\ [][NextBoot]_vars

----------------------------------------------------------------------------
(* The heartbeat queue *)

\* The instants of the model: the clock runs from 0 to MaxNow.
MaxNow == 2
Instants == 0..MaxNow

\* The nodes heartbeats are scheduled for, and the task lists of a call.
HeartbeatNodes == {1, 2}
TaskLists == {<<1>>, <<2, 1, 2>>}

HeartbeatTask(node_id) == [kind |-> "Heartbeat", id |-> node_id]
Sentinel(w) == [kind |-> "Sentinel", id |-> w]

\* HashMap::insert and HashMap::remove.
MapInsert(map, k, v) == [x \in DOMAIN map \cup {k} |-> IF x = k THEN v ELSE map[x]]
MapRemove(map, ks) == [x \in DOMAIN map \ ks |-> map[x]]

\* DelayQueue::insert_at: the entry gets the first free key of the slab.
insert_key(delay) ==
    CHOOSE k \in 0..Cardinality(delay) :
        /\ \A e \in delay : e.key # k
        /\ \A j \in 0..(k - 1) : \E e \in delay : e.key = j
insert_at(delay, task, when) ==
    delay \cup {[key |-> insert_key(delay), task |-> task, when |-> when]}

\* DelayQueue::reset_at: the entry of the key gets the deadline.
reset_at(delay, key, when) ==
    {IF e.key = key THEN [e EXCEPT !.when = when] ELSE e : e \in delay}

\* A try_schedule that takes the latest deadline.
schedule_latest(core, node, when) ==
    IF node \in DOMAIN core.node_scheduled
    THEN [core EXCEPT
            !.delay = reset_at(@, core.node_scheduled[node].key, when),
            !.node_scheduled = MapInsert(@, node, [key |-> core.node_scheduled[node].key,
                                             when |-> when])]
    ELSE [core EXCEPT
            !.delay = insert_at(@, HeartbeatTask(node), when),
            !.node_scheduled = MapInsert(@, node, [key |-> insert_key(core.delay),
                                             when |-> when])]

\* The body of the loop of try_schedule for one task: the entry of a node
\* that has one is reset when `when < old_when`; a node without an entry
\* gets one.
schedule_task(core, node, when) ==
    IF node \in DOMAIN core.node_scheduled
    THEN LET scheduled_key == core.node_scheduled[node].key
             old_when == core.node_scheduled[node].when
         IN  IF when < old_when
             THEN [core EXCEPT
                     !.delay = reset_at(@, scheduled_key, when),
                     !.node_scheduled = MapInsert(@, node, [key |-> scheduled_key,
                                                      when |-> when])]
             ELSE core
    ELSE [core EXCEPT
            !.delay = insert_at(@, HeartbeatTask(node), when),
            !.node_scheduled = MapInsert(@, node, [key |-> insert_key(core.delay),
                                             when |-> when])]

RECURSIVE schedule_tasks(_, _, _)
schedule_tasks(core, hb_tasks, when) ==
    IF hb_tasks = <<>> THEN core
    ELSE schedule_tasks(schedule_task(core, Head(hb_tasks), when), Tail(hb_tasks), when)

\* HeartbeatQueue::try_schedule.  The lock is held over the whole loop, the
\* yields included, so no other call sees the queue in between.
try_schedule(core, hb_tasks, when) ==
    IF ~core.enable THEN core ELSE schedule_tasks(core, hb_tasks, when)

\* A poll that takes one expired entry only.
poll_one_expired(delay, instant) ==
    IF \E e \in delay : e.when <= instant
    THEN {CHOOSE e \in delay : e.when <= instant}
    ELSE {}

\* DelayQueue::poll_expired until it is not ready: the entries whose
\* deadline has been reached.
poll_expired(delay, instant) == {e \in delay : e.when <= instant}

\* A try_poll that leaves node_scheduled alone.
poll_keeping_records(core, instant) ==
    IF ~core.enable THEN [core |-> core, heartbeats |-> {}, completed |-> {}]
    ELSE LET hb_tasks == poll_expired(core.delay, instant)
         IN  [core |-> [core EXCEPT !.delay = @ \ hb_tasks],
              heartbeats |-> {e.task.id : e \in {x \in hb_tasks : x.task.kind = "Heartbeat"}},
              completed |-> {e.task.id : e \in {x \in hb_tasks : x.task.kind = "Sentinel"}}]

\* HeartbeatQueue::try_poll: the queue after the call, the nodes of the
\* heartbeat tasks returned, and the waiters whose sentinel was sent to.
try_poll(core, instant) ==
    IF ~core.enable THEN [core |-> core, heartbeats |-> {}, completed |-> {}]
    ELSE LET hb_tasks == poll_expired(core.delay, instant)
             heartbeats == {e.task.id : e \in {x \in hb_tasks : x.task.kind = "Heartbeat"}}
         IN  [core |-> [core EXCEPT !.delay = @ \ hb_tasks,
                                    !.node_scheduled = MapRemove(@, heartbeats)],
              heartbeats |-> heartbeats,
              completed |-> {e.task.id : e \in {x \in hb_tasks : x.task.kind = "Sentinel"}}]

\* An enable that only sets the flag.
enable_keeping_entries(core, flag) == [core EXCEPT !.enable = flag]

\* HeartbeatQueue::enable: a change of the flag clears the queue.
enable(core, flag) ==
    IF core.enable # flag
    THEN [enable |-> flag, delay |-> {}, node_scheduled |-> EmptyMap]
    ELSE core

\* The waiters whose sentinel is in the delay queue.
Sentinels(delay) == {e.task.id : e \in {x \in delay : x.task.kind = "Sentinel"}}

\* The earliest `when` per node after a call accepted `when` for the nodes.
Earliest(map, nodes, when) ==
    [n \in DOMAIN map \cup nodes |->
        IF n \notin nodes THEN map[n]
        ELSE IF n \in DOMAIN map /\ map[n] <= when THEN map[n] ELSE when]

Range(seq) == {seq[i] : i \in 1..Len(seq)}

\* A call of try_schedule: from step_leader, join and report with
\* Instant::now(), taken before the lock is, and from the heartbeat sender
\* with the instant of the next heartbeat.
HbSchedule(hb_tasks, when) ==
    /\ hq' = try_schedule(hq, hb_tasks, when)
    /\ hlast' = [NoHeartbeatCall EXCEPT !.op = "try_schedule", !.tasks = hb_tasks,
                                        !.when = when]
    /\ hmin' = IF hq.enable
               THEN [polled |-> Earliest(hmin.polled, Range(hb_tasks), when),
                     cleared |-> Earliest(hmin.cleared, Range(hb_tasks), when)]
               ELSE hmin
    /\ UNCHANGED <<clock, ticks, shardVars, rootVars, adminVars, catalogVars, bootVars,
                   statsVars, reportVars>>

\* run_heartbeat calls try_poll while the core is published; a sentinel
\* that is sent to wakes its waiter.
HbPoll ==
    /\ shared_core[RootNode] # 0
    /\ LET polled == try_poll(hq, clock)
       IN  /\ hq' = polled.core
           /\ hlast' = [NoHeartbeatCall EXCEPT !.op = "try_poll",
                                               !.heartbeats = polled.heartbeats,
                                               !.completed = polled.completed]
           /\ ticks' = [w \in Waiters |->
                          IF w \in polled.completed THEN "woken" ELSE ticks[w]]
           /\ hmin' = [polled |-> MapRemove(hmin.polled, polled.heartbeats),
                       cleared |-> MapRemove(hmin.cleared, polled.heartbeats)]
    /\ UNCHANGED <<clock, shardVars, rootVars, adminVars, catalogVars, bootVars,
                   statsVars, reportVars>>

\* A call of enable: step_leader enables the queue when it leads and
\* disables it when it steps down.  A sentinel that is dropped with the
\* queue wakes its waiter, whose receiver sees the sender gone.
HbEnable(b) ==
    /\ hq' = enable(hq, b)
    /\ hlast' = [NoHeartbeatCall EXCEPT !.op = "enable", !.enable = b]
    /\ ticks' = [w \in Waiters |->
                   IF w \in Sentinels(hq.delay) \ Sentinels(hq'.delay)
                   THEN "woken" ELSE ticks[w]]
    /\ hmin' = IF hq.enable # b THEN [hmin EXCEPT !.cleared = EmptyMap] ELSE hmin
    /\ UNCHANGED <<clock, shardVars, rootVars, adminVars, catalogVars, bootVars,
                   statsVars, reportVars>>

\* wait_one_heartbeat_tick: it returns at once on a disabled queue, and
\* otherwise inserts its sentinel with no delay and waits for it.
HbWait(w) ==
    /\ ticks[w] = "idle"
    /\ IF hq.enable
       THEN /\ hq' = [hq EXCEPT !.delay = insert_at(@, Sentinel(w), clock)]
            /\ ticks' = [ticks EXCEPT ![w] = "waiting"]
       ELSE /\ hq' = hq
            /\ ticks' = ticks
    /\ hlast' = [NoHeartbeatCall EXCEPT !.op = "wait_one_heartbeat_tick",
                                        !.completed = IF hq.enable THEN {} ELSE {w}]
    /\ UNCHANGED <<clock, hmin, shardVars, rootVars, adminVars, catalogVars, bootVars,
                   statsVars, reportVars>>

\* `let _ = receiver.await`: the waiter runs again and returns.
HbWake(w) ==
    /\ ticks[w] = "woken"
    /\ ticks' = [ticks EXCEPT ![w] = "idle"]
    /\ hlast' = [NoHeartbeatCall EXCEPT !.op = "tick", !.completed = {w}]
    /\ UNCHANGED <<hq, clock, hmin, shardVars, rootVars, adminVars, catalogVars, bootVars,
                   statsVars, reportVars>>

\* Time passes.
HbClock ==
    /\ clock < MaxNow
    /\ clock' = clock + 1
    /\ hlast' = NoHeartbeatCall
    /\ UNCHANGED <<hq, ticks, hmin, shardVars, rootVars, adminVars, catalogVars, bootVars,
                   statsVars, reportVars>>

\* The queue of a root whose core is published, called in any order.
InitHq == InitAdmin /\ node_status = [n \in AdminNodes |-> "Active"]
NextHq ==
    \/ \E hb_tasks \in TaskLists, when \in Instants : HbSchedule(hb_tasks, when)
    \/ HbPoll
    \/ \E b \in BOOLEAN : HbEnable(b)
    \/ \E w \in Waiters : HbWait(w)
    \/ \E w \in Waiters : HbWake(w)
    \/ HbClock
SpecHq == InitHq /\ [][NextHq]_vars

\* run_heartbeat polls every second, and the runtime runs a waiter that was
\* woken.
NextTick ==
    \/ \E when \in Instants : HbSchedule(<<1>>, when)
    \/ HbPoll
    \/ \E b \in BOOLEAN : HbEnable(b)
    \/ \E w \in Waiters : HbWait(w)
    \/ \E w \in Waiters : HbWake(w)
    \/ HbClock
SpecTick ==
    InitHq /\ [][NextTick]_vars /\ WF_vars(HbPoll) /\ \A w \in Waiters : WF_vars(HbWake(w))

----------------------------------------------------------------------------
(* OngoingStats *)

\* The epochs of the schedule states and descriptors that nodes report.
MaxEpoch == 2
Epochs == 1..MaxEpoch

\* The groups and nodes of the schedule states, and the replica lists (by
\* node) a schedule state may carry.
StatGroups == {1, 2}
StatNodes == {1, 2}
IncomingLists == {<<>>, <<1>>, <<1, 2>>}
OutgoingLists == {<<>>, <<2>>}

ScheduleState(group_id, epoch, incoming, outgoing) ==
    [group_id |-> group_id, epoch |-> epoch, incoming_replicas |-> incoming,
     outgoing_replicas |-> outgoing]
ScheduleStates ==
    {ScheduleState(g, e, i, o) :
        g \in StatGroups, e \in Epochs, i \in IncomingLists, o \in OutgoingLists}

\* The slices handle_update is called with: one state, as report passes it,
\* and two states of one group.
StateUpdates ==
    {<<>>} \cup {<<st>> : st \in ScheduleStates}
       \cup {<<ScheduleState(1, a, <<1>>, <<>>), ScheduleState(1, b, <<>>, o)>> :
                a \in Epochs, b \in Epochs, o \in OutgoingLists}

\* Option<HashMap<node, NodeDelta>>: <<>> for None, <<map>> for Some(map) of
\* the replica counts.
NoJobUpdates == <<>>
JobMaps == {[n \in {1} |-> 2], [n \in {1, 2} |-> 0 - n]}
JobUpdates == {NoJobUpdates} \cup {<<map>> : map \in JobMaps}

GroupDelta(state) ==
    [epoch |-> state.epoch, incoming |-> state.incoming_replicas,
     outgoing |-> state.outgoing_replicas]

\* An update replaces the entry unless it is older.
not_older(delta_epoch, state_epoch) == delta_epoch <= state_epoch

\* `if delta.epoch < state.epoch`
newer(delta_epoch, state_epoch) == delta_epoch < state_epoch

\* SchedStats::replace_state: the raw_group_delta after the updates, and
\* whether any of them was taken.
RECURSIVE replace_state(_, _, _)
replace_state(raw_group_delta, updates, updated) ==
    IF updates = <<>> THEN [raw_group_delta |-> raw_group_delta, updated |-> updated]
    ELSE LET state == Head(updates)
             taken == \/ state.group_id \notin DOMAIN raw_group_delta
                      \/ newer(raw_group_delta[state.group_id].epoch, state.epoch)
         IN  replace_state(
                 IF taken THEN MapInsert(raw_group_delta, state.group_id, GroupDelta(state))
                 ELSE raw_group_delta,
                 Tail(updates), updated \/ taken)

\* The entry of a node in the view being rebuilt: replica_count += d, or a
\* new entry with replica_count d.
RECURSIVE count_replicas(_, _, _)
count_replicas(view, replicas, d) ==
    IF replicas = <<>> THEN view
    ELSE LET node_id == Head(replicas)
         IN  count_replicas(
                 IF node_id \in DOMAIN view THEN [view EXCEPT ![node_id] = @ + d]
                 ELSE MapInsert(view, node_id, d),
                 Tail(replicas), d)

\* A view that counts the incoming replicas only.
RECURSIVE rebuild_incoming(_, _)
rebuild_incoming(raw_group_delta, view) ==
    IF DOMAIN raw_group_delta = {} THEN view
    ELSE LET g == CHOOSE x \in DOMAIN raw_group_delta : TRUE
         IN  rebuild_incoming(MapRemove(raw_group_delta, {g}),
                              count_replicas(view, raw_group_delta[g].incoming, 1))

\* SchedStats::rebuild_view: over the group deltas, +1 for each incoming
\* replica of a node and -1 for each outgoing one.
RECURSIVE rebuild_view(_, _)
rebuild_view(raw_group_delta, view) ==
    IF DOMAIN raw_group_delta = {} THEN view
    ELSE LET g == CHOOSE x \in DOMAIN raw_group_delta : TRUE
             r == raw_group_delta[g]
         IN  rebuild_view(MapRemove(raw_group_delta, {g}),
                          count_replicas(count_replicas(view, r.incoming, 1),
                                         r.outgoing, 0 - 1))

\* OngoingStats::handle_update.
handle_update(stats, state_updates, job_updates) ==
    LET replaced == replace_state(stats.raw_group_delta, state_updates, FALSE)
    IN  [raw_group_delta |-> replaced.raw_group_delta,
         node_view |-> IF replaced.updated
                       THEN rebuild_view(replaced.raw_group_delta, EmptyMap)
                       ELSE stats.node_view,
         node_delta |-> IF job_updates # NoJobUpdates THEN job_updates[1]
                        ELSE stats.node_delta]

\* OngoingStats::get_node_delta(node).replica_count.
get_node_delta(stats, node) ==
    (IF node \in DOMAIN stats.node_view THEN stats.node_view[node] ELSE 0)
       + (IF node \in DOMAIN stats.node_delta THEN stats.node_delta[node] ELSE 0)

\* OngoingStats::reset.
reset(stats) ==
    [raw_group_delta |-> EmptyMap, node_view |-> EmptyMap, node_delta |-> EmptyMap]

\* A call of handle_update: report passes the schedule state of an update,
\* the jobs pass their node deltas.
StatsUpdate(state_updates, job_updates) ==
    /\ ongoing' = handle_update(ongoing, state_updates, job_updates)
    /\ ongoing_call' = [op |-> "handle_update", updates |-> state_updates,
                        node_delta |-> job_updates]
    /\ UNCHANGED <<shardVars, rootVars, adminVars, catalogVars, bootVars, hbVars,
                   reportVars>>

\* A call of reset: step_leader resets the stats when it starts to lead and
\* when it steps down.
StatsReset ==
    /\ ongoing' = reset(ongoing)
    /\ ongoing_call' = [NoStatsCall EXCEPT !.op = "reset"]
    /\ UNCHANGED <<shardVars, rootVars, adminVars, catalogVars, bootVars, hbVars,
                   reportVars>>

NextStats ==
    \/ \E state_updates \in StateUpdates : StatsUpdate(state_updates, NoJobUpdates)
    \/ \E job_updates \in JobUpdates :
          \E state_updates \in {<<>>, <<ScheduleState(2, 1, <<1, 2>>, <<2>>)>>} :
              StatsUpdate(state_updates, job_updates)
    \/ StatsReset
SpecStats == InitHq /\ [][NextStats]_vars

----------------------------------------------------------------------------
(* Reports of the nodes *)

\* The terms of the replica states that nodes report.
MaxTerm == 2
Terms == 1..MaxTerm

\* The descriptors, replica states and updates of a report.  The schedule
\* state comes with the descriptor of a user group.
ReportedDescs(g) ==
    IF g = ROOT_GROUP_ID THEN {GroupDesc(g, e, {1}) : e \in Epochs}
    ELSE {GroupDesc(g, e, {1}) : e \in Epochs} \cup {GroupDesc(g, MaxEpoch, {1, 2})}
ReportedStates(g) ==
    IF g = ROOT_GROUP_ID THEN {}
    ELSE {ReplicaState(g, rid, t, "Follower") : rid \in ReplicaIds, t \in Terms}
            \cup {ReplicaState(g, rid, 1, "Leader") : rid \in ReplicaIds}
OptionsOf(xs) == {<<>>} \cup {<<x>> : x \in xs}
UpdatesOf(g) ==
    {[group_id |-> g, group_desc |-> d, replica_state |-> rs,
      schedule_state |-> IF d # <<>> /\ g # ROOT_GROUP_ID
                         THEN <<ScheduleState(g, d[1].epoch, <<1>>, <<>>)>> ELSE <<>>] :
        d \in OptionsOf(ReportedDescs(g)), rs \in OptionsOf(ReportedStates(g))}
GroupUpdates ==
    UNION {UpdatesOf(g) : g \in Groups} \ {NoUpdate, [NoUpdate EXCEPT !.group_id = 1]}

\* schema.get_group and schema.get_replica_state: the stored value, if any.
schema_get_group(group_id) ==
    IF group_id \in DOMAIN group_descs THEN <<group_descs[group_id]>> ELSE <<>>
schema_get_replica_state(group_id, replica_id) ==
    IF <<group_id, replica_id>> \in DOMAIN replica_states
    THEN <<replica_states[<<group_id, replica_id>>]>> ELSE <<>>

\* schema.update_group_replica: the descriptor and the state that are given
\* are written.
update_group_desc(descs, group_desc) ==
    IF group_desc = <<>> THEN descs
    ELSE MapInsert(descs, group_desc[1].id, group_desc[1])
update_replica_state(states, replica_state) ==
    IF replica_state = <<>> THEN states
    ELSE MapInsert(states, <<replica_state[1].group_id, replica_state[1].replica_id>>,
                   replica_state[1])

\* report takes the schema and, for the update, reads the stored group: the
\* reported descriptor is dropped when the stored epoch is not smaller.
ReportGetGroup(r, u) ==
    /\ reports[r].pc = "idle"
    /\ shared_core[RootNode] # 0
    /\ LET pre_group == schema_get_group(u.group_id)
           group_desc ==
               IF u.group_desc = <<>> THEN <<>>
               ELSE IF pre_group # <<>> /\ pre_group[1].epoch >= u.group_desc[1].epoch
                    THEN <<>> ELSE u.group_desc
       IN  reports' = [reports EXCEPT ![r] = [pc |-> "get_replica_state", u |-> u,
                                              group_desc |-> group_desc,
                                              replica_state |-> <<>>]]
    /\ UNCHANGED <<group_descs, replica_states, shardVars, rootVars, adminVars,
                   catalogVars, bootVars, hbVars, statsVars>>

\* It reads the stored replica state: the reported state is dropped when
\* the stored term is greater, or equal with the same role.
ReportGetReplicaState(r) ==
    /\ reports[r].pc = "get_replica_state"
    /\ LET u == reports[r].u
           pre_rs == IF u.replica_state = <<>> THEN <<>>
                     ELSE schema_get_replica_state(u.group_id, u.replica_state[1].replica_id)
           replica_state ==
               IF u.replica_state = <<>> THEN <<>>
               ELSE IF /\ pre_rs # <<>>
                       /\ \/ pre_rs[1].term > u.replica_state[1].term
                          \/ /\ pre_rs[1].term = u.replica_state[1].term
                             /\ pre_rs[1].role = u.replica_state[1].role
                    THEN <<>> ELSE u.replica_state
       IN  reports' = [reports EXCEPT ![r].pc = "update_group_replica",
                                      ![r].replica_state = replica_state]
    /\ UNCHANGED <<group_descs, replica_states, shardVars, rootVars, adminVars,
                   catalogVars, bootVars, hbVars, statsVars>>

\* It writes what it kept, hands the schedule state to the stats and, for a
\* descriptor of the root group, schedules a heartbeat of this node.
ReportUpdate(r) ==
    /\ reports[r].pc = "update_group_replica"
    /\ LET u == reports[r].u
           group_desc == reports[r].group_desc
           root_desc == group_desc # <<>> /\ group_desc[1].id = ROOT_GROUP_ID
       IN  /\ group_descs' = update_group_desc(group_descs, group_desc)
           /\ replica_states' = update_replica_state(replica_states, reports[r].replica_state)
           /\ IF u.schedule_state # <<>>
              THEN /\ ongoing' = handle_update(ongoing, u.schedule_state, NoJobUpdates)
                   /\ ongoing_call' = [op |-> "handle_update", updates |-> u.schedule_state,
                                       node_delta |-> NoJobUpdates]
              ELSE UNCHANGED statsVars
           /\ IF root_desc
              THEN /\ hq' = try_schedule(hq, <<RootNode>>, clock)
                   /\ hlast' = [NoHeartbeatCall EXCEPT !.op = "try_schedule",
                                                       !.tasks = <<RootNode>>,
                                                       !.when = clock]
                   /\ hmin' = IF hq.enable
                              THEN [polled |-> Earliest(hmin.polled, {RootNode}, clock),
                                    cleared |-> Earliest(hmin.cleared, {RootNode}, clock)]
                              ELSE hmin
                   /\ UNCHANGED <<clock, ticks>>
              ELSE UNCHANGED hbVars
    /\ reports' = [reports EXCEPT ![r] = NoReport]
    /\ UNCHANGED <<shardVars, rootVars, adminVars, catalogVars, bootVars>>

\* Nodes report concurrently to a root that leads with its heartbeat queue
\* enabled.
NextReport ==
    \/ \E r \in Reporters, u \in GroupUpdates : ReportGetGroup(r, u)
    \/ \E r \in Reporters : ReportGetReplicaState(r)
    \/ \E r \in Reporters : ReportUpdate(r)
    \/ HbEnable(TRUE)
SpecReport == InitHq /\ [][NextReport]_vars

----------------------------------------------------------------------------
(* Properties of the txn-id allocator *)

\* The step in which the alloc_txn_id call of caller c returns an id.
Returns(c) == alloc[c].pc = "cas" /\ alloc'[c].pc = "idle"

\* The core a call runs on.
CoreOf(c) == cores[alloc[c].root_core]

\* C3 as stated, its second half: within one leadership epoch (one core), a
\* call returns an id strictly greater than the id returned by every call
\* that completed before it.  Checked for the calls that started after
\* every call that has returned so far.
C3_Original ==
    [][\A c \in Callers :
          (Returns(c) /\ ~alloc[c].overlapped /\ CoreOf(c).top # -1)
              => alloc[c].next_txn_id > CoreOf(c).top]_vars

\* C3, amended: within one leadership epoch, under every interleaving, a call
\* returns an id that is at least the end id' + n' of the range of every
\* call that returned before it.  So the ranges do not overlap, and the id
\* is strictly greater than the id of every earlier call that required at
\* least one id; after a call that required none, the same id is returned
\* again.
C3_RangesDisjoint ==
    [][\A c \in Callers :
          Returns(c) => /\ alloc[c].next_txn_id >= CoreOf(c).end
                        /\ alloc[c].next_txn_id >= CoreOf(c).top]_vars

\* A call is about to return an id from a core after a concurrent call
\* returned ids from it.
C3_Witness ==
    \E c \in Callers :
        /\ alloc[c].pc = "cas"
        /\ alloc[c].overlapped
        /\ alloc[c].num_required > 0
        /\ CoreOf(c).next_txn_id = alloc[c].next_txn_id
        /\ CoreOf(c).end > 0

\* An alloc_txn_id call that retries: it loaded a max_txn_id that is not 0
\* and that the ids it requires do not fit below.
Pending(c) ==
    /\ alloc[c].pc = "load"
    /\ CoreOf(c).max_txn_id # 0
    /\ CoreOf(c).next_txn_id + alloc[c].num_required > CoreOf(c).max_txn_id

\* C13: when the node of the core has lost the lease while an alloc_txn_id
\* call is pending on it, the call eventually returns (NotLeader, as it never
\* gets to the compare_exchange), unless the lease comes back to the node.
C13_PendingAllocCancelled ==
    \A c \in Callers :
        (Pending(c) /\ leader # CoreOf(c).node)
            ~> (alloc[c].pc = "idle" \/ leader = CoreOf(c).node)

\* The model has room for one more reservation on the core of call c.
Room(c) == CoreOf(c).max_txn_id + RESERVATION <= MaxTxnId

\* C31: while the node of its core leads, an alloc_txn_id call that finds
\* next + n > max eventually returns, the bumper raising max_txn_id as long
\* as the leadership lasts (and as long as the ids of the model last).
C31_AllocReturns ==
    \A c \in Callers :
        (Pending(c) /\ Room(c))
            ~> (alloc[c].pc = "idle" \/ leader # CoreOf(c).node \/ ~Room(c))

\* The core RootShared::core holds on a node that has one.
Published(nd) == cores[shared_core[nd]]

\* C14 as stated: wherever a core is published, next_txn_id <= max_txn_id,
\* and max_txn_id = 0 exactly when the node does not hold the lease.
C14_Original ==
    \A nd \in Nodes :
        shared_core[nd] # 0 =>
            /\ Published(nd).next_txn_id <= Published(nd).max_txn_id
            /\ (Published(nd).max_txn_id = 0) <=> (leader # nd)

\* C14, amended: a core whose max_txn_id is not 0 has next_txn_id <=
\* max_txn_id; and max_txn_id = 0 on a published core only between the store
\* of 0 by step_leader, after it has seen the lease lost, and the core being
\* set to None.
C14_NextBelowMax ==
    /\ \A e \in 1..Len(cores) :
          cores[e].max_txn_id # 0 => cores[e].next_txn_id <= cores[e].max_txn_id
    /\ \A nd \in Nodes :
          (shared_core[nd] # 0 /\ Published(nd).max_txn_id = 0)
              => /\ step[nd].pc = "unpublish"
                 /\ step[nd].root_core = shared_core[nd]
                 /\ Published(nd).dropped

\* A published core that returned ids has max_txn_id = 0.
C14_Witness ==
    \E nd \in Nodes :
        /\ shared_core[nd] # 0
        /\ Published(nd).max_txn_id = 0
        /\ Published(nd).next_txn_id > 0

\* C20: the core is owned by the current root leader alone and the step-down
\* sets it to None atomically: no node has a published core (is_root() true,
\* schema() succeeding) whose max_txn_id is 0, and at most one node has a
\* published core.
C20_CoreExclusive ==
    /\ \A nd \in Nodes :
          shared_core[nd] # 0 => Published(nd).max_txn_id # 0
    /\ \A n1 \in Nodes, n2 \in Nodes :
          (shared_core[n1] # 0 /\ shared_core[n2] # 0) => n1 = n2

\* C4: across a leader handoff, the first id returned under the new leader
\* is strictly greater than every id in every range returned under the
\* previous leader, whenever that range was returned.
C4_HandoffFirstId ==
    \A e1 \in 1..Len(cores), e2 \in 1..Len(cores) :
        (e1 < e2 /\ cores[e2].first # -1) => cores[e2].first >= cores[e1].end

\* The step in which step_leader publishes a core on node nd.
Publishes(nd) == shared_core'[nd] # shared_core[nd] /\ shared_core'[nd] # 0

\* C28: step_leader builds the core with next_txn_id and max_txn_id both at
\* the persisted max_txn_id, unpublished; when it publishes the core, the
\* first bump has been persisted and stored (max_txn_id is at least a
\* reservation above next_txn_id and no more than the persisted marker) and
\* the core has returned no id; on_step_leader returns only once the core
\* is published; and every id returned comes from a core that was published.
C28_StepLeaderOrder ==
    [][/\ Len(cores') > Len(cores) =>
             LET core == cores'[Len(cores')]
             IN  /\ core.next_txn_id = schema_txn_id
                 /\ core.max_txn_id = schema_txn_id
                 /\ \A nd \in Nodes : shared_core'[nd] # Len(cores')
       /\ \A nd \in Nodes :
             /\ Publishes(nd) =>
                   LET core == cores[shared_core'[nd]]
                   IN  /\ core.max_txn_id >= core.next_txn_id + RESERVATION
                       /\ core.max_txn_id <= schema_txn_id
                       /\ core.first = -1
                       /\ core.bumper = "none"
             /\ (step[nd].pc # "leading" /\ step'[nd].pc = "leading")
                   => shared_core[nd] = step[nd].root_core
       /\ \A c \in Callers :
             Returns(c) => CoreOf(c).bumper # "none"]_vars

\* The node leads with a published core that has returned an id.
C28_Witness ==
    \E nd \in Nodes :
        /\ step[nd].pc = "leading"
        /\ shared_core[nd] # 0
        /\ Published(nd).first # -1

\* C29: the max_txn_id of every core is at most the max_txn_id persisted in
\* the schema, and every id of a range alloc_txn_id returns is below the
\* persisted max_txn_id when the call returns.
C29_BelowPersisted ==
    [][/\ \A e \in 1..Len(cores') : cores'[e].max_txn_id <= schema_txn_id'
       /\ \A c \in Callers :
             Returns(c) =>
                alloc[c].next_txn_id + alloc[c].num_required <= schema_txn_id]_vars

\* C30: from the moment step_leader has stored max_txn_id = 0 into its core,
\* and at least until it sets the published core to None, the max_txn_id of
\* the core stays 0 and no alloc_txn_id call returns an id from the core.
C30_ZeroSticks ==
    [][\A nd \in Nodes :
          step[nd].pc = "unpublish" =>
             /\ cores'[step[nd].root_core].max_txn_id = 0
             /\ \A c \in Callers :
                   Returns(c) => alloc[c].root_core # step[nd].root_core]_vars

----------------------------------------------------------------------------
(* Properties of the intent evaluator *)

\* The record at the reserved intent version of a key, if any.
IntentRecords(s, key) == {r \in s[key] : r.version = TXN_INTENT_VERSION}

\* The latest committed record of a key: the intent left aside.
CommittedGet(s, key) ==
    LET chain == s[key] \ IntentRecords(s, key)
    IN  IF chain = {} THEN None ELSE Some(Top(chain))

\* Whether a shard write names a key.
BodyKeys(body) ==
    {body.deletes[i].key : i \in 1..Len(body.deletes)}
        \cup {body.puts[i].key : i \in 1..Len(body.puts)}

\* The step completes a call of the handler op.
Completes(op) == last'.op = op

\* The step completes a commit_intent that names key k, for a transaction
\* whose write_intent on k was applied before.
CommitsWritten(k) ==
    /\ Completes("commit_intent")
    /\ k \in KeysOf(last'.req)
    /\ \E body \in txn[last'.t].written : k \in BodyKeys(body)

\* The intent of the committing transaction on k before the step.
IntentBefore(k) == read_target_intent(store, last'.req.start_version, k)

\* When the only shard write of the transaction was one plain put or one
\* delete of k, the content the client asked for; otherwise the content the
\* intent holds.
WrittenContent(k) ==
    LET written == txn[last'.t].written
        body == CHOOSE b \in written : TRUE
    IN  IF Cardinality(written) = 1 /\ NumWrites(body) = 1 /\ Len(body.deletes) = 1
        THEN None
        ELSE IF /\ Cardinality(written) = 1 /\ NumWrites(body) = 1
                /\ body.puts[1].put_type = "None"
        THEN Some(body.puts[1].value)
        ELSE IntentBefore(k)[1].value

\* C1 as stated: after write_intent(S) on a key and then commit_intent(S, C)
\* naming the key, get returns the record at version C that holds the
\* written value (a tombstone for a delete), and the key has no intent.
C1_Original ==
    [][\A k \in Keys : CommitsWritten(k) =>
          /\ IsSome(IntentBefore(k))
          /\ EngineGet(store', k) =
               Some([version |-> last'.req.commit_version, content |-> WrittenContent(k)])
          /\ IntentRecords(store', k) = {}]_vars

\* C1, amended: the same for a delete and for a put that stores a value; a
\* put of type Nop stores no value, and after its commit the key has no
\* intent and get returns the record that was below the intent.
C1_CommitThenGet ==
    [][\A k \in Keys : CommitsWritten(k) =>
          /\ IsSome(IntentBefore(k))
          /\ IntentRecords(store', k) = {}
          /\ IF IntentBefore(k)[1].is_delete \/ IsSome(IntentBefore(k)[1].value)
             THEN EngineGet(store', k) =
                    Some([version |-> last'.req.commit_version,
                          content |-> WrittenContent(k)])
             ELSE EngineGet(store', k) = CommittedGet(store, k)]_vars

\* A commit_intent has just replaced the intent of a put by its value at the
\* commit version.
C1_Witness ==
    /\ last.op = "commit_intent"
    /\ last.eval
    /\ EngineGet(store, "a") = Some(ValueWith(V1, last.req.commit_version))

\* C2: a write_intent request evaluated again after its batch was applied,
\* with no commit or clear of the transaction applied in between, succeeds,
\* returns no EvalResult and leaves the store as it is.
C2_WriteIntentIdempotent ==
    [][(Completes("write_intent") /\ last'.replay) =>
          (last'.result = NoError /\ ~last'.eval /\ store' = store)]_vars

\* A replayed write_intent has completed.
C2_Witness == last.op = "write_intent" /\ last.replay /\ NumWrites(last.req) > 0

\* C7: a commit_intent request evaluated again after its batch was applied
\* returns no EvalResult and leaves the store as it is.
C7_CommitIntentIdempotent ==
    [][(Completes("commit_intent") /\ last'.replay) =>
          (~last'.eval /\ store' = store)]_vars

C7_Witness == last.op = "commit_intent" /\ last.replay

\* C8: a clear_intent request evaluated again after its batch was applied
\* returns no EvalResult and leaves the store as it is.
C8_ClearIntentIdempotent ==
    [][(Completes("clear_intent") /\ last'.replay) =>
          (~last'.eval /\ store' = store)]_vars

C8_Witness == last.op = "clear_intent" /\ last.replay

\* The initial content of key "a" as a number.
InitialNumber == IF \E r \in store["a"] : r.version = 0 THEN 3 ELSE 0

\* C5: while the only writes of key "a" are increments by one sent by
\* concurrent clients, the committed value of "a" is its initial value plus
\* the number of increments that succeeded: no increment is lost.
C5_IncrementsNotLost ==
    adds.only =>
        LET committed == CommittedGet(store, "a")
        IN  IF adds.n = 0
            THEN \/ IsNone(committed)
                 \/ committed = Some(ValueWith(I64(3), 0))
            ELSE /\ IsSome(committed)
                 /\ committed[1].content = Some(I64(InitialNumber + adds.n))

\* Two increments succeeded, one of them after waiting for the intent of
\* the other transaction.
C5_Witness == adds.only /\ adds.contended /\ adds.n >= 2

\* C6: a write_intent that found the intent of another transaction on a key
\* went on only after that transaction was resolved: the key then holds no
\* intent; the write is evaluated against the value the other transaction
\* committed, at its commit version, when it committed, and against the
\* value that was there before the other transaction when it aborted.
C6_IntentResolution ==
    [][Completes("write_intent") =>
          \A n \in 1..Len(last'.resolves) :
              LET x == last'.resolves[n]
              IN  /\ x.intent.start_version # last'.req.start_version
                  /\ IsNone(x.top) \/ x.top[1].version # TXN_INTENT_VERSION
                  /\ x.prev_value = x.top
                  /\ (x.signal.state = "Committed"
                        /\ (x.intent.is_delete \/ IsSome(x.intent.value)))
                     => x.prev_value =
                          Some([version |-> x.signal.commit_version,
                                content |-> x.intent.value])
                  /\ x.signal.state = "Aborted" => x.prev_value = x.below]_vars

\* A write_intent returned after the transaction it waited for committed a
\* value.
C6_Witness ==
    /\ last.op = "write_intent"
    /\ \E n \in 1..Len(last.resolves) :
           /\ last.resolves[n].signal.state = "Committed"
           /\ IsSome(last.resolves[n].intent.value)
           /\ IsSome(last.resolves[n].below)

\* The write of a request CasFailed points at with idx: a delete when idx is
\* below the number of deletes, otherwise the put at idx minus that number.
FailedWrite(call) ==
    LET num_deletes == Len(call.req.deletes)
    IN  IF call.idx < num_deletes THEN call.req.deletes[call.idx + 1]
        ELSE call.req.puts[call.idx - num_deletes + 1]

\* The condition semantics as the claims state them.
IsAbsent(prev) == prev = None
IsTombstone(prev) == prev # None /\ prev[1].content = None
ConditionFails(prev, c) ==
    IF c.type = "ExpectExists" THEN IsAbsent(prev) \/ IsTombstone(prev)
    ELSE IF c.type = "ExpectNotExists" THEN ~IsAbsent(prev) /\ ~IsTombstone(prev)
    ELSE IsAbsent(prev) \/ IsTombstone(prev) \/ prev[1].content # Some(c.value)

\* C9: write_intent fails with CasFailed(idx, cond_idx, prev_value) where idx
\* is the position of the write, the deletes counted before the puts,
\* cond_idx the position of its first failing condition and prev_value the
\* value of its key; the whole batch is dropped: no EvalResult, no intent
\* stored.
C9_CasFailed ==
    [][(Completes("write_intent") /\ last'.result = "CasFailed") =>
          /\ store' = store
          /\ ~last'.eval
          /\ last'.idx < Len(last'.req.deletes) + Len(last'.req.puts)
          /\ LET w == FailedWrite(last')
             IN  /\ last'.cond_idx < Len(w.conditions)
                 /\ last'.prev = EngineGet(store, w.key)
                 /\ ConditionFails(last'.prev, w.conditions[last'.cond_idx + 1])
                 /\ \A j \in 1..last'.cond_idx :
                        ~ConditionFails(last'.prev, w.conditions[j])]_vars

\* A put behind a delete failed its condition.
C9_Witness ==
    /\ last.op = "write_intent"
    /\ last.result = "CasFailed"
    /\ Len(last.req.deletes) = 1
    /\ last.idx = 1

\* The writes of a request whose key holds no intent in state s, with the
\* conditions that fail against the value of the key, as <<write, condition>>
\* positions from 1.
FailingIn(s, req) ==
    {p \in (1..NumWrites(req)) \X (1..2) :
        LET w == WriteAt(req, p[1])
        IN  /\ IntentRecords(s, w.key) = {}
            /\ p[2] <= Len(w.conditions)
            /\ ConditionFails(EngineGet(s, w.key), w.conditions[p[2]])}

\* C10: ExpectExists fails iff the previous value is absent or a tombstone,
\* ExpectNotExists fails iff it is a present value, ExpectValue(b) fails iff
\* it is not a present value equal to b.  write_intent fails with CasFailed
\* exactly when a condition of one of its writes fails, at the first such
\* write and condition; a write whose conditions all hold stages its intent.
C10_Conditions ==
    [][Completes("write_intent") =>
          LET failing == FailingIn(store, last'.req)
          IN  /\ (last'.result = "CasFailed") <=> (failing # {})
              /\ last'.result = "CasFailed" =>
                   /\ <<last'.idx + 1, last'.cond_idx + 1>> \in failing
                   /\ \A p \in failing :
                          \/ p[1] > last'.idx + 1
                          \/ p[1] = last'.idx + 1 /\ p[2] >= last'.cond_idx + 1
              /\ last'.result = NoError =>
                   \A i \in 1..NumWrites(last'.req) :
                       IsSome(read_target_intent(store', last'.req.start_version,
                                                 WriteAt(last'.req, i).key))]_vars

\* A put whose two conditions hold against the present value has staged its
\* intent.
C10_Witness ==
    /\ last.op = "write_intent"
    /\ last.result = NoError
    /\ last.eval
    /\ Len(last.req.puts) = 1
    /\ Len(last.req.puts[1].conditions) = 2

\* The residues that tell two numbers below 2^65 apart: pairwise coprime,
\* their product above 2^65.
Moduli == {4194299, 4194301, 4194303}

RECURSIVE Residue(_, _, _)
\* The number with the big-endian base-256 digits bytes[1..i], modulo m.
Residue(bytes, i, m) ==
    IF i = 0 THEN 0 ELSE (Residue(bytes, i - 1, m) * 256 + bytes[i]) % m

\* r = (x + y) mod 2^64 for three numbers given by their eight digits: x + y
\* is r, or r + 2^64.
WrappedSum(x, y, r) ==
    \E carry \in {0, 1} : \A m \in Moduli :
        (Residue(x, 8, m) + Residue(y, 8, m)) % m
            = (Residue(r, 8, m) + carry * Residue(<<1, 0, 0, 0, 0, 0, 0, 0, 0>>, 9, m)) % m

\* The value a completed write_intent evaluated its only put against: the
\* top of the key, or what resolve_txn left when the key held an intent.
EvaluatedAgainst(call) ==
    IF call.resolves = <<>> THEN EngineGet(store, call.req.puts[1].key)
    ELSE call.resolves[Len(call.resolves)].prev_value

\* C11: an AddI64 put stores the 8-byte big-endian encoding of
\* wrapping_add(v, delta), the sum modulo 2^64, where v is the previous
\* content and 0 when the previous value is absent or a tombstone; when the
\* delta or the previous content is no 8-byte encoding, write_intent fails
\* with InvalidArgument and stages nothing.
C11_AddI64 ==
    [][(/\ Completes("write_intent")
        /\ Len(last'.req.puts) = 1 /\ Len(last'.req.deletes) = 0
        /\ last'.req.puts[1].put_type = "AddI64"
        /\ IsNone(read_target_intent(store, last'.req.start_version,
                                     last'.req.puts[1].key)))
       => LET put == last'.req.puts[1]
              prev == EvaluatedAgainst(last')
              content == IF IsAbsent(prev) \/ IsTombstone(prev) THEN None
                         ELSE prev[1].content
              v == IF IsNone(content) THEN I64(0) ELSE content[1]
              intent == read_target_intent(store', last'.req.start_version, put.key)
          IN  IF Len(put.value) # 8 \/ Len(v) # 8
              THEN /\ last'.result = "InvalidArgument"
                   /\ ~last'.eval
                   /\ store' = store
              ELSE /\ last'.result = NoError
                   /\ last'.eval
                   /\ IsSome(intent)
                   /\ ~intent[1].is_delete
                   /\ IsSome(intent[1].value)
                   /\ Len(intent[1].value[1]) = 8
                   /\ \A i \in 1..8 : intent[1].value[1][i] \in 0..255
                   /\ WrappedSum(v, put.value, intent[1].value[1])]_vars

\* i64::MAX + 1 has been stored as i64::MIN.
C11_Witness ==
    /\ last.op = "write_intent"
    /\ last.result = NoError
    /\ last.req.puts[1].value = I64(1)
    /\ IntentRecords(store, "a") # {}
    /\ decode(Top(store["a"]).content[1]).value = Some(I64Min)

\* The records of a key below its intent.
Committed(s, key) == s[key] \ IntentRecords(s, key)

\* The key holds the intent of a Nop put: no delete, no value.
HoldsNop(s, key) ==
    \E r \in IntentRecords(s, key) :
        LET intent == decode(r.content[1])
        IN  ~intent.is_delete /\ IsNone(intent.value)

\* C12: a put of type Nop records an intent with no value; while the intent
\* is there the committed records of the key stay as they are, and the
\* commit of the intent only deletes the intent record.  So get returns
\* after the commit what it returned before the Nop write_intent.
C12_NopCommit ==
    [][/\ (/\ Completes("write_intent")
           /\ last'.result = NoError
           /\ last'.eval
           /\ NumWrites(last'.req) = 1 /\ Len(last'.req.puts) = 1
           /\ last'.req.puts[1].put_type = "Nop")
          => LET key == last'.req.puts[1].key
             IN  /\ read_target_intent(store', last'.req.start_version, key)
                        = Some(IntentWithPut(last'.req.start_version, None))
                 /\ Committed(store', key) = Committed(store, key)
       /\ \A k \in Keys :
             /\ HoldsNop(store, k) => Committed(store', k) = Committed(store, k)
             /\ (/\ HoldsNop(store, k)
                 /\ Completes("commit_intent")
                 /\ k \in KeysOf(last'.req)
                 /\ IsSome(IntentBefore(k)))
                => /\ store'[k] = Committed(store, k)
                   /\ CommittedGet(store', k) = CommittedGet(store, k)]_vars

\* The intent of a Nop put on a key that holds a value has been committed.
C12_Witness ==
    /\ last.op = "commit_intent"
    /\ last.eval
    /\ last.req.keys = <<"a">>
    /\ IntentRecords(store, "a") = {}
    /\ IsSome(CommittedGet(store, "a"))
    /\ \A r \in store["a"] : r.version # last.req.commit_version

\* The intents a key holds, decoded.
Intents(s, key) == {decode(r.content[1]) : r \in IntentRecords(s, key)}

\* The values and tombstones a step adds to a key.
Inserted(k) == Committed(store', k) \ Committed(store, k)

Responses(call) == call.deletes \o call.puts

\* Write i of the request finds the intent of its own transaction on top
\* of its key: an idempotent replay.
IsReplay(s, req, i) ==
    \E intent \in Intents(s, WriteAt(req, i).key) :
        intent.start_version = req.start_version

\* C23 as stated: a write that is an idempotent replay stages nothing for
\* its key, fails on none of its conditions, and its response entry has no
\* prev_value.
C23_Original ==
    [][Completes("write_intent") =>
          \A i \in 1..NumWrites(last'.req) :
              IsReplay(store, last'.req, i) =>
                 /\ store'[WriteAt(last'.req, i).key] = store[WriteAt(last'.req, i).key]
                 /\ ~(last'.result = "CasFailed" /\ last'.idx = i - 1)
                 /\ last'.result = NoError =>
                       Responses(last')[i].prev_value = None]_vars

\* C23, amended: the same, except that the response entry of a replayed
\* write with take_prev_value holds the record below the intent, if any.
C23_ReplaySkips ==
    [][Completes("write_intent") =>
          \A i \in 1..NumWrites(last'.req) :
              IsReplay(store, last'.req, i) =>
                 LET w == WriteAt(last'.req, i)
                 IN  /\ store'[w.key] = store[w.key]
                     /\ ~(last'.result = "CasFailed" /\ last'.idx = i - 1)
                     /\ last'.result = NoError =>
                           Responses(last')[i].prev_value =
                              IF w.take_prev_value THEN CommittedGet(store, w.key)
                              ELSE None]_vars

\* A replayed put with take_prev_value has returned the value below its
\* intent, and staged nothing.
C23_Witness ==
    /\ last.op = "write_intent"
    /\ last.result = NoError
    /\ ~last.eval
    /\ Len(last.puts) = 1
    /\ IsSome(last.puts[1].prev_value)
    /\ IsReplay(store, last.req, 1)

\* The key holds the intent of the transaction started at start_version.
HoldsIntentOf(s, key, start_version) ==
    \E intent \in Intents(s, key) : intent.start_version = start_version

\* C24: commit_intent and clear_intent of the transaction started at S leave
\* every key as it is unless the key holds the intent of that transaction:
\* a key that holds the intent of another transaction, only values and
\* tombstones, or nothing keeps its records.
C24_OtherIntentsKept ==
    [][(Completes("commit_intent") \/ Completes("clear_intent")) =>
          \A k \in Keys :
              ~HoldsIntentOf(store, k, last'.req.start_version) =>
                  store'[k] = store[k]]_vars

\* A commit_intent has named a key that holds the intent of another
\* transaction.
C24_Witness ==
    /\ last.op = "commit_intent"
    /\ "a" \in KeysOf(last.req)
    /\ Intents(store, "a") # {}
    /\ ~HoldsIntentOf(store, "a", last.req.start_version)

\* C25: the values and tombstones of a key stay as they are when
\* write_intent puts an intent on it and for as long as it holds an intent
\* that is not committed; an applied clear_intent removes the intent of its
\* transaction and nothing else, so get returns the record it returned
\* before the write_intent.
C25_ClearKeepsCommitted ==
    [][\A k \in Keys :
          /\ Completes("write_intent") => Committed(store', k) = Committed(store, k)
          /\ (Intents(store, k) # {} /\ ~Completes("commit_intent"))
                => Committed(store', k) = Committed(store, k)
          /\ (/\ Completes("clear_intent")
              /\ k \in KeysOf(last'.req)
              /\ HoldsIntentOf(store, k, last'.req.start_version))
                => /\ store'[k] = Committed(store, k)
                   /\ EngineGet(store', k) = CommittedGet(store, k)]_vars

\* A clear_intent has removed the intent from a key that holds a value.
C25_Witness ==
    /\ last.op = "clear_intent"
    /\ last.eval
    /\ last.req.keys = <<"a">>
    /\ Intents(store, "a") = {}
    /\ IsSome(EngineGet(store, "a"))

\* The write_intent of transaction b waits in resolve_txn and has been woken
\* with (Committed, commit_version).
WokenCommitted(b) ==
    /\ ev[b].pc = "resolving"
    /\ IsSome(ev[b].signal)
    /\ ev[b].signal[1].state = "Committed"

C27_WriteIntentReturn ==
    [][(Completes("write_intent") /\ last'.result = NoError) =>
          LET req == last'.req
              staged == {i \in 1..NumWrites(req) : ~IsReplay(store, req, i)}
          IN  /\ last'.eval <=> staged # {}
              /\ \A i \in staged :
                    HoldsIntentOf(store', WriteAt(req, i).key, req.start_version)
              /\ ~last'.eval => store' = store
              /\ Len(last'.deletes) = Len(req.deletes)
              /\ Len(last'.puts) = Len(req.puts)
              /\ \A i \in 1..NumWrites(req) :
                    Responses(last')[i].prev_value =
                       IF WriteAt(req, i).take_prev_value
                       THEN CommittedGet(store, WriteAt(req, i).key)
                       ELSE None]_vars

\* A write_intent of one delete and one put has returned an EvalResult; the
\* delete did not ask for the previous value, the put did and got one.
C27_Witness ==
    /\ last.op = "write_intent"
    /\ last.result = NoError
    /\ last.eval
    /\ Len(last.deletes) = 1 /\ Len(last.puts) = 1
    /\ IsNone(last.deletes[1].prev_value)
    /\ IsSome(last.puts[1].prev_value)

----------------------------------------------------------------------------
(* Properties of the node lifecycle *)

\* The step in which the call op of admin client a returns.
AdminReturns(a, op) ==
    admin[a].op = op /\ admin[a].pc # "idle" /\ admin'[a].pc = "idle"

\* The step changes the status of no node but n, and sets up no task.
OnlyStatusOf(n) ==
    /\ \A other \in AdminNodes \ {n} : node_status'[other] = node_status[other]
    /\ tasks' = tasks

\* C15: cordon_node(id) changes the status of a node only from Active to
\* Cordoned; for a node in any other status, and for an unknown node, it
\* returns InvalidArgument, and every call that returns an error leaves the
\* stored statuses as they are.
C15_Cordon ==
    [][\A a \in AdminClients :
          AdminReturns(a, "cordon_node") =>
              LET n == admin[a].node_id
              IN  /\ OnlyStatusOf(n)
                  /\ admin'[a].result = "Ok" =>
                        /\ node_status[n] = "Active"
                        /\ node_status'[n] = "Cordoned"
                  /\ admin'[a].result # "Ok" => node_status' = node_status
                  /\ (admin[a].pc = "get" /\ get_node(n) # "Active") =>
                        admin'[a].result = "InvalidArgument"]_vars

\* C16: uncordon_node(id) sets a node to Active only when its status is
\* Cordoned, Drained or Decommissioned; for an Active or Draining node, and
\* for an unknown node, it returns InvalidArgument, and every call that
\* returns an error leaves the stored statuses as they are.
C16_Uncordon ==
    [][\A a \in AdminClients :
          AdminReturns(a, "uncordon_node") =>
              LET n == admin[a].node_id
              IN  /\ OnlyStatusOf(n)
                  /\ admin'[a].result = "Ok" =>
                        /\ node_status[n] \in {"Cordoned", "Drained", "Decommissioned"}
                        /\ node_status'[n] = "Active"
                  /\ admin'[a].result # "Ok" => node_status' = node_status
                  /\ (admin[a].pc = "get"
                          /\ get_node(n) \notin {"Cordoned", "Drained", "Decommissioned"}) =>
                        admin'[a].result = "InvalidArgument"]_vars

\* C17: begin_drain(id) moves a node to Draining only from Cordoned and then
\* sets up a ShedLeader task for it; from any other status it returns an
\* error, changes no status and sets up no ShedLeader; for the root leader
\* node it sets up ShedRoot, refuses, and leaves the status as it is.
C17_BeginDrain ==
    [][\A a \in AdminClients :
          /\ (admin[a].op = "begin_drain" /\ admin[a].pc = "update"
                 /\ admin'[a] # admin[a]) =>
                \/ /\ admin'[a].pc = "setup"
                   /\ node_status[admin[a].node_id] = "Cordoned"
                   /\ node_status'[admin[a].node_id] = "Draining"
                   /\ OnlyStatusOf(admin[a].node_id)
                \/ /\ admin'[a].pc # "setup"
                   /\ node_status' = node_status
                   /\ tasks' = tasks
          /\ (admin[a].op = "begin_drain" /\ admin[a].pc = "setup"
                 /\ admin'[a].pc = "idle") =>
                /\ admin'[a].result = "Ok"
                /\ node_status' = node_status
                /\ node_status[admin[a].node_id] = "Draining"
                /\ tasks' = tasks \cup {<<"ShedLeader", admin[a].node_id>>}
          /\ (admin[a].op = "begin_drain" /\ admin[a].pc = "get"
                 /\ admin'[a] # admin[a]
                 /\ get_node(admin[a].node_id) # "Cordoned") =>
                /\ admin'[a].pc = "idle"
                /\ admin'[a].result = "InvalidArgument"
                /\ node_status' = node_status
                /\ tasks' = tasks
          /\ (admin[a].pc = "idle" /\ admin'[a].op = "begin_drain"
                 /\ admin'[a].node_id = RootNode /\ admin'[a] # admin[a]) =>
                /\ admin'[a].pc = "idle"
                /\ admin'[a].result = "InvalidArgument"
                /\ node_status' = node_status
                /\ tasks' = tasks \cup {<<"ShedRoot", RootNode>>}]_vars

\* The status changes the lifecycle allows the admin calls to store.
AllowedChanges ==
    {<<"Active", "Cordoned">>, <<"Cordoned", "Draining">>, <<"Cordoned", "Active">>,
     <<"Drained", "Active">>, <<"Decommissioned", "Active">>}

\* C32: under any interleaving of cordon_node, uncordon_node and begin_drain
\* calls, every change of a stored status is one the lifecycle allows (so a
\* Draining node is never set back to Active or Cordoned), and a ShedLeader
\* task is set up only for a node whose stored status is Draining.
C32_AllowedChangesOnly ==
    [][/\ \A n \in AdminNodes :
             node_status'[n] # node_status[n] =>
                <<node_status[n], node_status'[n]>> \in AllowedChanges
       /\ \A task \in tasks' \ tasks :
             task[1] = "ShedLeader" => node_status'[task[2]] = "Draining"]_vars

----------------------------------------------------------------------------
(* Properties of deleting databases and collections *)

\* The call of a names the system database.
OnSystemDatabase(a) ==
    /\ ddl[a].op = "delete_database"
    /\ \E db \in databases : db.name = ddl[a].name /\ db.id = SYSTEM_DB_ID

\* The call of a names a collection with an id below the first user id.
OnSystemCollection(a) ==
    /\ ddl[a].op = "delete_collection"
    /\ \E db \in databases, co \in collections :
          /\ db.name = ddl[a].database
          /\ co.db = db.id /\ co.name = ddl[a].name
          /\ co.id < FIRST_USER_COLLECTION_ID

\* The step of a looks its target up on a root that serves the call.
LooksUp(a) ==
    \/ ddl[a].op = "delete_database" /\ ddl[a].pc = "get_database"
          /\ shared_core[RootNode] # 0
    \/ ddl[a].op = "delete_collection" /\ ddl[a].pc = "get_collection"

\* C21: no step of a delete_database on the system database or of a
\* delete_collection on a collection with an id below
\* FIRST_USER_COLLECTION_ID submits a job or changes the schema, and the step
\* that looks the target up returns InvalidArgument; the lookup of a
\* delete_database on a name no database has returns DatabaseNotFound.
C21_SystemNotDeleted ==
    [][\A a \in AdminClients :
          (ddl[a].pc # "idle" /\ ddl'[a] # ddl[a]) =>
             /\ (OnSystemDatabase(a) \/ OnSystemCollection(a)) =>
                   /\ jobs' = jobs
                   /\ databases' = databases
                   /\ collections' = collections
                   /\ ddl'[a].pc \notin {"submit", "delete"}
                   /\ LooksUp(a) =>
                         ddl'[a].pc = "idle" /\ ddl'[a].result = "InvalidArgument"
             /\ (/\ ddl[a].op = "delete_database"
                 /\ LooksUp(a)
                 /\ \A db \in databases : db.name # ddl[a].name) =>
                   /\ ddl'[a].pc = "idle"
                   /\ ddl'[a].result = "DatabaseNotFound"
                   /\ jobs' = jobs
                   /\ databases' = databases
                   /\ collections' = collections]_vars

\* One call on the system database and one on a system collection have
\* returned InvalidArgument.
C21_Witness ==
    \E a, b \in AdminClients :
       /\ ddl[a].pc = "idle" /\ OnSystemDatabase(a)
       /\ ddl[a].result = "InvalidArgument"
       /\ ddl[b].pc = "idle" /\ OnSystemCollection(b)
       /\ ddl[b].result = "InvalidArgument"

----------------------------------------------------------------------------
(* Properties of the node identity *)

\* The start found the ident stored: it is reading it or reloading the root.
FoundStored == boot.pc \in {"read_ident", "reload_root"} /\ ident # NoIdent

\* All of write_initial_cluster_data is on the disk.
InitialDataWritten == disk.root_group /\ disk.init_group /\ disk.root_desc

\* C22: a stored ident never changes; a start that finds it stored writes
\* nothing, sends no join request and returns it or an error; an ident is
\* saved only by bootstrap_cluster once the initial cluster data is written,
\* or by try_join_cluster with the cluster id and node id of an answer of
\* the root; the ident a start returns is the stored one.
C22_IdentOnce ==
    [][/\ ident # NoIdent => ident' = ident
       /\ (FoundStored /\ boot' # boot) =>
             /\ disk' = disk
             /\ joined' = joined
             /\ boot'.pc \in {"reload_root", "running", "stopped"}
       /\ boot'.pc = "running" => boot'.returned = ident' /\ ident' # NoIdent
       /\ ident' # ident =>
             \/ /\ boot.init
                /\ InitialDataWritten
                /\ ident' = NodeIdent("", FIRST_NODE_ID)
             \/ /\ ~boot.init
                /\ boot.res \in joined
                /\ ident' = boot.res]_vars

\* A start has returned the ident that an earlier start saved after its
\* join, and the root has answered more than one join request.
C22_Witness ==
    /\ boot.pc = "running"
    /\ boot.returned = ident
    /\ boot.saved = ""
    /\ ident \in joined
    /\ Cardinality(joined) > 1

----------------------------------------------------------------------------
(* Properties of the heartbeat queue *)

\* The Heartbeat entries of node n in a delay queue.
HeartbeatEntries(delay, n) == {e \in delay : e.task = HeartbeatTask(n)}

\* The step is a call of try_schedule, and what it does to node n: nothing
\* on a disabled queue; on an enabled one a node without an entry gets one
\* entry with deadline `when`, and a node with an entry has its deadline
\* moved to `when` only if `when` is strictly earlier.
Schedules(n) ==
    LET when == hlast'.when
        had == n \in DOMAIN hq.node_scheduled
    IN  IF ~hq.enable THEN hq' = hq
        ELSE IF n \notin Range(hlast'.tasks)
        THEN HeartbeatEntries(hq'.delay, n) = HeartbeatEntries(hq.delay, n)
        ELSE /\ n \in DOMAIN hq'.node_scheduled
             /\ Cardinality(HeartbeatEntries(hq'.delay, n)) = 1
             /\ \A e \in HeartbeatEntries(hq'.delay, n) :
                   e.when = IF had /\ hq.node_scheduled[n].when <= when
                            THEN hq.node_scheduled[n].when ELSE when
             /\ hq'.node_scheduled[n].when =
                   IF had /\ hq.node_scheduled[n].when <= when
                   THEN hq.node_scheduled[n].when ELSE when

\* C33 as stated: try_schedule acts as described, and the deadline of a
\* node is the minimum of the `when` values scheduled since it was last
\* polled.
C33_Original ==
    [][/\ hlast'.op = "try_schedule" => \A n \in HeartbeatNodes : Schedules(n)
       /\ \A n \in DOMAIN hq'.node_scheduled :
             /\ n \in DOMAIN hmin'.polled
             /\ hq'.node_scheduled[n].when = hmin'.polled[n]]_vars

\* C33, amended: try_schedule acts as described, and the deadline of a node
\* is the minimum of the `when` values scheduled since it was last polled
\* or, if that is later, since the queue was last cleared by a change of
\* its enable flag.
C33_ScheduleKeepsEarliest ==
    [][/\ hlast'.op = "try_schedule" => \A n \in HeartbeatNodes : Schedules(n)
       /\ \A n \in DOMAIN hq'.node_scheduled :
             /\ n \in DOMAIN hmin'.cleared
             /\ hq'.node_scheduled[n].when = hmin'.cleared[n]]_vars

\* A try_schedule has left the earlier deadline of a node in place, and a
\* node has a deadline later than a `when` scheduled before the last clear.
C33_Witness ==
    /\ hq.enable
    /\ hlast.op = "try_schedule"
    /\ \E n \in Range(hlast.tasks) : hq.node_scheduled[n].when < hlast.when
    /\ \E m \in DOMAIN hq.node_scheduled :
          m \in DOMAIN hmin.polled /\ hmin.polled[m] < hq.node_scheduled[m].when

\* C34: in every reachable state the nodes recorded in node_scheduled are
\* exactly the nodes with a Heartbeat entry in the delay queue, each node has
\* at most one such entry, and the record holds the key and the deadline of
\* the entry.
C34_RecordsMatchEntries ==
    /\ DOMAIN hq.node_scheduled =
          {n \in HeartbeatNodes : HeartbeatEntries(hq.delay, n) # {}}
    /\ \A n \in DOMAIN hq.node_scheduled :
          /\ Cardinality(HeartbeatEntries(hq.delay, n)) = 1
          /\ \A e \in HeartbeatEntries(hq.delay, n) :
                /\ e.when = hq.node_scheduled[n].when
                /\ e.key = hq.node_scheduled[n].key
    /\ \A e1 \in hq.delay, e2 \in hq.delay : e1.key = e2.key => e1 = e2

\* A try_poll has returned the heartbeat of one node and completed a
\* sentinel while another node stays in the queue.
C34_Witness ==
    /\ hlast.op = "try_poll"
    /\ hlast.heartbeats # {}
    /\ hlast.completed # {}
    /\ DOMAIN hq.node_scheduled # {}

\* The nodes with a Heartbeat entry, and the waiters with a sentinel, whose
\* deadline is before the instant, or at it.
Due(delay, kind, instant) ==
    {e.task.id : e \in {x \in delay : x.task.kind = kind /\ x.when < instant}}
Reached(delay, kind, instant) ==
    {e.task.id : e \in {x \in delay : x.task.kind = kind /\ x.when <= instant}}

\* C35: a try_poll on a disabled queue returns nothing and changes nothing;
\* on an enabled queue it returns every heartbeat task whose deadline has
\* passed and none whose deadline is not reached, takes the tasks it returns
\* out of the queue and removes their node_scheduled records, and completes
\* every sentinel whose deadline has passed; a heartbeat task leaves the
\* queue only by being returned or by a change of the enable flag, so it is
\* returned by one try_poll, the first after its deadline.
C35_PollReturnsExpired ==
    [][/\ hlast'.op = "try_poll" =>
             IF ~hq.enable
             THEN hlast'.heartbeats = {} /\ hlast'.completed = {} /\ hq' = hq
             ELSE /\ Due(hq.delay, "Heartbeat", clock) \subseteq hlast'.heartbeats
                  /\ hlast'.heartbeats \subseteq Reached(hq.delay, "Heartbeat", clock)
                  /\ Due(hq.delay, "Sentinel", clock) \subseteq hlast'.completed
                  /\ hlast'.completed \subseteq Reached(hq.delay, "Sentinel", clock)
                  /\ \A n \in hlast'.heartbeats :
                        /\ n \notin DOMAIN hq'.node_scheduled
                        /\ HeartbeatEntries(hq'.delay, n) = {}
                  /\ \A n \in HeartbeatNodes \ hlast'.heartbeats :
                        HeartbeatEntries(hq'.delay, n) = HeartbeatEntries(hq.delay, n)
                  /\ \A w \in hlast'.completed : ticks'[w] = "woken"
       /\ \A n \in HeartbeatNodes :
             (HeartbeatEntries(hq.delay, n) # {} /\ HeartbeatEntries(hq'.delay, n) = {}) =>
                \/ hlast'.op = "try_poll" /\ n \in hlast'.heartbeats
                \/ hlast'.op = "enable" /\ hlast'.enable # hq.enable]_vars

\* A try_poll has returned the one task that was due, completed a sentinel,
\* and left a task whose deadline is not reached.
C35_Witness ==
    /\ hlast.op = "try_poll"
    /\ Cardinality(hlast.heartbeats) = 1
    /\ hlast.completed # {}
    /\ \E m \in DOMAIN hq.node_scheduled : hq.node_scheduled[m].when > clock
    /\ clock > 0

\* C36: enable with the other flag empties the delay queue, sentinels
\* included, and node_scheduled; enable with the flag the queue has changes
\* nothing; a disabled queue is empty; and a try_poll returns tasks scheduled
\* since the last clear only, never one scheduled before a disable.
C36_DisableClears ==
    [][/\ hlast'.op = "enable" =>
             IF hq.enable # hlast'.enable
             THEN /\ hq'.enable = hlast'.enable
                  /\ hq'.delay = {}
                  /\ hq'.node_scheduled = EmptyMap
             ELSE hq' = hq
       /\ hlast'.op = "try_poll" => hlast'.heartbeats \subseteq DOMAIN hmin.cleared
       /\ ~hq'.enable => hq'.delay = {} /\ hq'.node_scheduled = EmptyMap]_vars

\* The queue has just been disabled with a heartbeat task that was never
\* polled and with a sentinel in it, whose waiter is woken.
C36_Witness ==
    /\ hlast.op = "enable"
    /\ ~hq.enable
    /\ hmin.polled # EmptyMap
    /\ \E w \in Waiters : ticks[w] = "woken"

\* C37: wait_one_heartbeat_tick returns at once on a disabled queue; a
\* waiter that waits has its sentinel in the queue, due at once, so that the
\* next try_poll or a disable wakes it; and with run_heartbeat polling, every
\* waiter eventually returns, so the loop of step_leader gets back to
\* polling on_leader.
C37_TickReturns ==
    /\ [][/\ (hlast'.op = "wait_one_heartbeat_tick" /\ ~hq.enable) =>
                ticks' = ticks /\ hq' = hq
          /\ \A w \in Waiters :
                ticks'[w] = "waiting" =>
                   /\ w \in Reached(hq'.delay, "Sentinel", clock')
                   /\ hq'.enable
          /\ \A w \in Waiters :
                (ticks[w] = "waiting" /\ hlast'.op \in {"try_poll", "enable"}
                   /\ (hlast'.op = "enable" => hlast'.enable # hq.enable)) =>
                   ticks'[w] = "woken"]_vars
    /\ \A w \in Waiters : (ticks[w] # "idle") ~> (ticks[w] = "idle")

\* A waiter has returned from its tick while the queue is enabled and
\* another waiter still waits.
C37_Witness ==
    /\ hlast.op = "tick"
    /\ hq.enable
    /\ \E w \in Waiters : ticks[w] = "waiting"

----------------------------------------------------------------------------
(* Properties of OngoingStats *)

StoredEpoch(stats, g) ==
    IF g \in DOMAIN stats.raw_group_delta THEN stats.raw_group_delta[g].epoch ELSE 0

\* No update of the call is newer than the entry stored for its group.
NoneNewer(stats, updates) ==
    \A i \in 1..Len(updates) :
        /\ updates[i].group_id \in DOMAIN stats.raw_group_delta
        /\ updates[i].epoch <= stats.raw_group_delta[updates[i].group_id].epoch

\* C38: a call of handle_update replaces the entry of a group only by one of
\* its schedule states, and only if the group had no entry or the state's
\* epoch is strictly greater than the stored one; a single state that is
\* newer is stored; when every state of the call has an epoch equal to or
\* smaller than the stored one, the group deltas and the node view are
\* unchanged; so no stored epoch decreases and no entry disappears in a
\* call of handle_update.
C38_NewerEpochReplaces ==
    [][LET raw == ongoing.raw_group_delta
           new == ongoing'.raw_group_delta
           ups == ongoing_call'.updates
       IN  ongoing_call'.op = "handle_update" =>
             /\ DOMAIN raw \subseteq DOMAIN new
             /\ \A g \in DOMAIN new :
                   \/ g \in DOMAIN raw /\ new[g] = raw[g]
                   \/ /\ \E i \in 1..Len(ups) :
                            ups[i].group_id = g /\ new[g] = GroupDelta(ups[i])
                      /\ g \in DOMAIN raw => raw[g].epoch < new[g].epoch
             /\ \A g \in DOMAIN raw : raw[g].epoch <= new[g].epoch
             /\ \A i \in 1..Len(ups) : ups[i].epoch <= StoredEpoch(ongoing', ups[i].group_id)
             /\ (Len(ups) = 1 /\ StoredEpoch(ongoing, ups[1].group_id) < ups[1].epoch)
                   => new[ups[1].group_id] = GroupDelta(ups[1])
             /\ NoneNewer(ongoing, ups)
                   => new = raw /\ ongoing'.node_view = ongoing.node_view
      ]_vars

\* A call with one schedule state of the stored epoch and other replicas than
\* the stored ones has returned.
C38_Witness ==
    /\ ongoing_call.op = "handle_update"
    /\ Len(ongoing_call.updates) = 1
    /\ LET u == ongoing_call.updates[1]
       IN  /\ u.group_id \in DOMAIN ongoing.raw_group_delta
           /\ u.epoch = ongoing.raw_group_delta[u.group_id].epoch
           /\ GroupDelta(u) # ongoing.raw_group_delta[u.group_id]

\* The number of replicas of a list that are on node n.
CountOn(replicas, n) == Cardinality({i \in 1..Len(replicas) : replicas[i] = n})

\* Incoming minus outgoing replicas on node n, summed over the groups gs.
RECURSIVE SumDeltas(_, _, _)
SumDeltas(raw, gs, n) ==
    IF gs = {} THEN 0
    ELSE LET g == CHOOSE x \in gs : TRUE
         IN  CountOn(raw[g].incoming, n) - CountOn(raw[g].outgoing, n)
                + SumDeltas(raw, gs \ {g}, n)

JobCount(node_delta, n) == IF n \in DOMAIN node_delta THEN node_delta[n] ELSE 0

\* C39: after every call, get_node_delta(n).replica_count is the incoming
\* minus the outgoing replicas on n over the stored group deltas, plus the
\* count of n in the job delta map; the job delta map is the one of the last
\* call of handle_update that passed one; right after reset the count is 0
\* for every node.
C39_NodeDeltaIsSum ==
    [][\A n \in StatNodes \cup {3} :
          /\ get_node_delta(ongoing', n)
                = SumDeltas(ongoing'.raw_group_delta, DOMAIN ongoing'.raw_group_delta, n)
                     + JobCount(ongoing'.node_delta, n)
          /\ ongoing_call'.op = "handle_update" =>
                ongoing'.node_delta
                   = IF ongoing_call'.node_delta = NoJobUpdates THEN ongoing.node_delta
                     ELSE ongoing_call'.node_delta[1]
          /\ ongoing_call'.op = "reset" => get_node_delta(ongoing', n) = 0
      ]_vars

\* Two groups are stored, a node has more outgoing than incoming replicas and
\* a count in the job delta map, which an earlier call has set.
C39_Witness ==
    /\ ongoing_call.op = "handle_update"
    /\ ongoing_call.node_delta = NoJobUpdates
    /\ Cardinality(DOMAIN ongoing.raw_group_delta) = 2
    /\ \E n \in DOMAIN ongoing.node_view \cap DOMAIN ongoing.node_delta :
          /\ ongoing.node_view[n] < 0
          /\ get_node_delta(ongoing, n) < ongoing.node_view[n]

----------------------------------------------------------------------------
(* Properties of the reports *)

\* C40: the descriptor stored for a group is replaced only by one of a
\* strictly greater epoch, and the stored state of a replica only by one of
\* a greater term, or of the same term and another role.
C40_MergedMonotonically ==
    [][/\ \A g \in DOMAIN group_descs :
             /\ g \in DOMAIN group_descs'
             /\ \/ group_descs'[g] = group_descs[g]
                \/ group_descs'[g].epoch > group_descs[g].epoch
       /\ \A k \in DOMAIN replica_states :
             /\ k \in DOMAIN replica_states'
             /\ \/ replica_states'[k] = replica_states[k]
                \/ replica_states'[k].term > replica_states[k].term
                \/ /\ replica_states'[k].term = replica_states[k].term
                   /\ replica_states'[k].role # replica_states[k].role
      ]_vars
====
